---- MODULE Spec2Model ----
(***************************************************************************)
(* The event-to-XP pipeline of the gamification backend: XPService.        *)
(* processEvent, the XPRule checks, XPLedger.addXP and the cached          *)
(* User.totalXP.  Every `await` of the JavaScript code is a point at which *)
(* another request may run, so each handler is a process whose steps are   *)
(* the code between two awaits.                                            *)
(***************************************************************************)
EXTENDS Integers, Sequences, FiniteSets, TLC

VARIABLES
  now,        \* the clock (Date.now()), in ticks
  totalXP,    \* User.totalXP, per user document
  ledger,     \* the xp_ledger collection, in creation order
  events,     \* the events collection, in creation order (index = _id)
  quests,     \* quest_progress rows: <<user, quest, periodStart>> -> progressValue
  rules,      \* the xp_rules collection: actionType -> rule document
  procs,      \* the requests in flight: one record per request slot
  calls,      \* number of requests started so far
  referral,   \* the referral document of the invitee, as stored
  firstLoginAt, \* User.metadata.firstLoginAt, per user document: set or not
  referrals,  \* the referrals collection as rows, in creation order
  xprules,    \* the xp_rules collection as rows, in creation order (index = _id)
  auth        \* the users collection for the auth controller: the user's nonce and
              \* expiry, the referral codes in use, and the requests in flight

vars == <<now, totalXP, ledger, events, quests, rules, procs, calls, referral,
          firstLoginAt, referrals, xprules, auth>>

----------------------------------------------------------------------------
\* Bounds of the model.
\* Request slots: the requests that run concurrently.
NProcs == 2
\* Requests started in one run.
MaxCalls == 3
\* The submissions of a run of concurrent submissions over several days.
MaxRaces == 2
\* The last tick of the clock.
MaxTime == 3
\* Ticks per calendar day.
DayLen == 2
\* The cooldown of the rules that have one, in ticks.
CooldownTicks == 2
\* requests started in a run with referral requests
MaxRefCalls == 5
\* The referral codes there are (36^6 in the code).
NCodes == 4
\* The life of a nonce (5 minutes), in ticks.
NonceTicks == 1
\* Nonces generated in one run.
MaxNonces == 2

Procs == 1..NProcs
Users == {"u1", "u2"}
NoUser == "nobody"          \* an id with no user document

----------------------------------------------------------------------------
\* XPLedger schema: the closed enumeration of reason codes.
ReasonEnum ==
  {"connect_wallet", "deposit", "supply", "borrow", "swap", "claim_faucet",
   "complete_quest", "referral_reward_inviter", "referral_reward_invitee",
   "select_strategy", "admin_adjustment", "penalty", "other"}

\* joinWaitlist: parseInt(process.env.WAITLIST_REFERRAL_XP) || 100
WaitlistReferralXP == 100

Msg(t, n) == [text |-> t, n |-> n]
NoMsg == Msg("", 0)

\* Event metadata; 0 and "none" stand for an absent field.
NoMeta == [chainId |-> 0, amount |-> 0, txHash |-> "none", tokenSymbol |-> "none",
           protocol |-> "none", eventType |-> "none", contractAddress |-> "none"]
NoRule == [actionType |-> "none", xpAmount |-> 0, dailyLimit |-> 0, minAmount |-> 0,
           validChains |-> {}, validProtocols |-> {}, cooldownMinutes |-> 0,
           isActive |-> FALSE]
NoRes == [kind |-> "none", success |-> FALSE, xpAwarded |-> 0, message |-> NoMsg,
          detail |-> "", nextAvailableAt |-> -1]

\* A referral document: the inviter, the invitee, the status, the criteria
\* flags and threshold, the rewards paid; all defaults of the schema.
MinXPThreshold == 100
NewReferral ==
  [inviterUserId |-> "u1", inviteeUserId |-> "u2", status |-> "pending",
   firstLogin |-> FALSE, firstOnchainAction |-> FALSE, minXPReached |-> FALSE,
   minXPThreshold |-> MinXPThreshold, inviterXP |-> 0, inviteeXP |-> 0]

\* A free request slot.
\* updateQuestProgress line 218: let periodStart, periodEnd; both are left
\* undefined for a cadence that is neither daily nor weekly.
NoPeriod == -1

Idle ==
  [op |-> "none", pc |-> "idle", user |-> NoUser, type |-> "none", key |-> "none",
   meta |-> NoMeta, evt |-> 0, rule |-> NoRule, delta |-> 0, reason |-> "none",
   bal |-> 0, res |-> NoRes, why |-> NoMsg, rej |-> NoRes, doc |-> NewReferral, row |-> 0, invitee |-> [login |-> FALSE, xp |-> 0],
   \* history of the request, kept for the properties
   ran |-> <<>>, wrote |-> 0, xpw |-> 0, qadv |-> 0, marks |-> 0,
   cdAt |-> -1, cdLast |-> -1, cdBy |-> 0, limAt |-> -1, limN |-> -1, limOthers |-> -1,
   limBy |-> {}, pre |-> 0, hadRule |-> "none", ver |-> "none", exp |-> "unset",
   fault |-> "none",
   \* updateQuestProgress: the quests left to advance, the period and the loaded
   \* progressValue of the first of them
   qs |-> <<>>, per |-> NoPeriod, prog |-> 0]

\* User.nonce and User.nonceExpiry when cleared (null).
NoNonce == 0
NoExpiry == -1

\* The wallet of the authentication requests: the wallet of user u1.
Wallet == "u1"

\* A signature: who signed, and the nonce of the message that was signed.
NoSignature == [signer |-> "none", nonce |-> NoNonce]

\* A free slot of the auth controller: the wallet, nonce and signature of the
\* request, the nonce fields of the user document as it was loaded, and as the
\* request has set them since.
AuthIdle ==
  [pc |-> "idle", wallet |-> "none", nonce |-> NoNonce, signature |-> NoSignature,
   loaded |-> [nonce |-> NoNonce, nonceExpiry |-> NoExpiry],
   user |-> [nonce |-> NoNonce, nonceExpiry |-> NoExpiry], res |-> "none"]

\* User.referralCode when not given.
NoCode == 0

\* A free slot for the save of a new user.
SaveIdle == [pc |-> "idle", code |-> NoCode, res |-> "none"]

\* The referral codes of the users that exist: the pre-save hook gave each
\* a code of its own.
UserCodes == 1..Cardinality(Users)

\* The users collection before the first requestNonce: the users exist, the
\* nonce and expiry of every user are null, the users' referral codes are in
\* use.  issued counts the nonces generated, tries the verifySignature
\* requests, tokens lists the authentications.
NoAuth ==
  [nonce |-> [u \in Users |-> NoNonce], nonceExpiry |-> [u \in Users |-> NoExpiry],
   issued |-> 0, tries |-> 0,
   reqs |-> [p \in Procs |-> AuthIdle], tokens |-> <<>>,
   codes |-> UserCodes, saves |-> [p \in Procs |-> SaveIdle]]

RECURSIVE SumDelta(_, _)
\* XPLedger.calculateTotalXP: the $sum of deltaXP over a user's entries.
SumDelta(l, u) ==
  IF l = <<>> THEN 0
  ELSE (IF Head(l).userId = u THEN Head(l).deltaXP ELSE 0) + SumDelta(Tail(l), u)

----------------------------------------------------------------------------
\* The rule store.

BaseSepolia == 84532

\* A rule document with the defaults of the schema.
Rule(actionType, xpAmount) ==
  [actionType |-> actionType, xpAmount |-> xpAmount, dailyLimit |-> 0, minAmount |-> 0,
   validChains |-> {}, validProtocols |-> {}, cooldownMinutes |-> 0, isActive |-> TRUE]

\* XPService.seedDefaultRules: the five default rules, by action type; the
\* cooldowns of 1440 minutes in ticks.
SeedRules ==
  [t \in {"connect_wallet", "deposit", "supply", "claim_faucet", "select_strategy"} |->
     CASE t = "connect_wallet" ->
            [Rule(t, 50) EXCEPT !.dailyLimit = 1, !.cooldownMinutes = CooldownTicks]
       [] t = "deposit" ->
            [Rule(t, 100) EXCEPT !.minAmount = 10, !.validChains = {BaseSepolia}]
       [] t = "supply" ->
            [Rule(t, 150) EXCEPT !.minAmount = 10, !.validChains = {BaseSepolia}]
       [] t = "claim_faucet" ->
            [Rule(t, 25) EXCEPT !.dailyLimit = 1, !.cooldownMinutes = CooldownTicks]
       [] t = "select_strategy" ->
            [Rule(t, 30) EXCEPT !.dailyLimit = 1]]

\* The order in which seedDefaultRules creates them.
SeedOrder == <<"connect_wallet", "deposit", "supply", "claim_faucet", "select_strategy">>

\* Three rules an administrator added: createXPRule takes any action type and
\* the limit, cooldown and chains of the body ('withdraw',
\* 'duplicate_strategy', 'borrow'); it passes no validProtocols, which
\* updateXPRule set on the rule of 'borrow' afterwards.
AdminRules ==
  [t \in {"withdraw", "duplicate_strategy", "borrow"} |->
     CASE t = "withdraw" ->
            [Rule(t, 40) EXCEPT !.dailyLimit = 1, !.validChains = {BaseSepolia},
                                !.cooldownMinutes = CooldownTicks]
       [] t = "duplicate_strategy" -> Rule(t, 20)
       [] t = "borrow" -> [Rule(t, 60) EXCEPT !.validProtocols = {"aave"}]]

\* The order in which the administrator created them.
AdminOrder == <<"withdraw", "duplicate_strategy", "borrow">>

\* The xp_rules collection the runs start from: by action type, and as the rows
\* of the collection in the order of their creation.
InitialRules ==
  [t \in DOMAIN SeedRules \cup DOMAIN AdminRules |->
     IF t \in DOMAIN SeedRules THEN SeedRules[t] ELSE AdminRules[t]]
SeedRows == [i \in 1..Len(SeedOrder) |-> SeedRules[SeedOrder[i]]]
InitialRows == SeedRows \o [i \in 1..Len(AdminOrder) |-> AdminRules[AdminOrder[i]]]

\* The ids of the rules with the action type.
RulesWith(actionType) == {i \in 1..Len(xprules) : xprules[i].actionType = actionType}

\* What getRuleByAction reads: the rule of each action type of the collection.
RulesOf(rows) ==
  [t \in {rows[i].actionType : i \in 1..Len(rows)} |->
     rows[CHOOSE i \in 1..Len(rows) : rows[i].actionType = t]]

\* XPRule.getRuleByAction: findOne({actionType, isActive: true}).
GetRuleByAction(actionType) ==
  IF actionType \in DOMAIN rules /\ rules[actionType].isActive
    THEN rules[actionType] ELSE NoRule

\* XPRule.validateEvent: the rule is read again, then chain and minimum amount
\* are checked, each only when the event carries the field.
ValidateEvent(actionType, m) ==
  LET rule == GetRuleByAction(actionType) IN
  IF rule = NoRule
    THEN [valid |-> FALSE, reason |-> Msg("No active rule found for this action", 0)]
  ELSE IF rule.validChains # {} /\ m.chainId # 0 /\ m.chainId \notin rule.validChains
    THEN [valid |-> FALSE, reason |-> Msg("Invalid chain ID", 0)]
  ELSE IF /\ rule.validProtocols # {} /\ m.protocol # "none"
          /\ m.protocol \notin rule.validProtocols
    THEN [valid |-> FALSE, reason |-> Msg("Invalid protocol", 0)]
  ELSE IF rule.minAmount # 0 /\ m.amount # 0 /\ m.amount < rule.minAmount
    THEN [valid |-> FALSE, reason |-> Msg("Minimum amount is", rule.minAmount)]
  ELSE [valid |-> TRUE, reason |-> NoMsg]

\* The ids of the events a query selects.
EventIds == 1..Len(events)

\* The status filter of both checks: status: { $in: ['verified', 'processed'] }.
CountedStatus(st) == st \in {"verified", "processed"}

\* A filter that also selects events still in status recorded.
CountedStatusAny(st) == st \in {"recorded", "verified", "processed"}

\* canUserEarnXP's query: the user's events of the action type, in a counted
\* status, with occurredAt >= cutoffTime.
RecentEvents(u, actionType, cutoff) ==
  {i \in EventIds : /\ events[i].userId = u
                    /\ events[i].type = actionType
                    /\ CountedStatus(events[i].status)
                    /\ events[i].occurredAt >= cutoff}

\* .sort({occurredAt: -1}) of findOne: the selected events that no other is
\* more recent than.  The store returns any one of those with the same
\* occurredAt.
MostRecent(ids) == {i \in ids : \A j \in ids : events[j].occurredAt <= events[i].occurredAt}

\* nextAvailableAt computed from the time of the check instead of the event.
NextAvailableFromNow(occurredAt, cooldown, t) == t + cooldown

\* canUserEarnXP line 390: recentEvent.occurredAt + cooldownMs.
NextAvailableAt(occurredAt, cooldown, t) == occurredAt + cooldown

\* XPRule.canUserEarnXP (the cooldown check): the results it may return when
\* cutoffTime is computed at time t0 (line 374) and the remaining time at time
\* t, after the query (line 385); one result per event the query may return.
CanUserEarnXP(rule, u, t0, t) ==
  IF rule.cooldownMinutes = 0
    THEN {[canEarn |-> TRUE, reason |-> NoMsg, nextAvailableAt |-> -1, by |-> 0]}
  ELSE LET found == RecentEvents(u, rule.actionType, t0 - rule.cooldownMinutes) IN
    IF found # {}
      THEN {[canEarn |-> FALSE,
             reason |-> Msg("Cooldown active. Try again in",
                            rule.cooldownMinutes - (t - events[e].occurredAt)),
             nextAvailableAt |-> NextAvailableAt(events[e].occurredAt, rule.cooldownMinutes, t),
             by |-> e] : e \in MostRecent(found)}
      ELSE {[canEarn |-> TRUE, reason |-> NoMsg, nextAvailableAt |-> -1, by |-> 0]}

\* A start of day that is the start of the run.
StartOfEpoch(t) == 0

\* startOfDay.setHours(0, 0, 0, 0): local midnight of the day of t.
StartOfDay(t) == t - (t % DayLen)

\* checkDailyLimit's query: the user's events of the action type, in a counted
\* status, since local midnight.
TodayEvents(u, actionType, t) ==
  {i \in EventIds : /\ events[i].userId = u
                    /\ events[i].type = actionType
                    /\ CountedStatus(events[i].status)
                    /\ events[i].occurredAt >= StartOfDay(t)}

\* A limit check that takes 0 for a limit of no events.
CheckDailyLimitOfZero(rule, u, t) ==
  LET today == TodayEvents(u, rule.actionType, t) IN
  IF Cardinality(today) >= rule.dailyLimit
    THEN [withinLimit |-> FALSE, reason |-> Msg("Daily limit reached", rule.dailyLimit),
          by |-> today]
    ELSE [withinLimit |-> TRUE, reason |-> NoMsg, by |-> {}]

\* XPRule.checkDailyLimit at time t.
CheckDailyLimit(rule, u, t) ==
  IF rule.dailyLimit = 0
    THEN [withinLimit |-> TRUE, reason |-> NoMsg, by |-> {}]
  ELSE LET today == TodayEvents(u, rule.actionType, t) IN
    IF Cardinality(today) >= rule.dailyLimit
      THEN [withinLimit |-> FALSE, reason |-> Msg("Daily limit reached", rule.dailyLimit),
            by |-> today]
      ELSE [withinLimit |-> TRUE, reason |-> NoMsg, by |-> {}]

----------------------------------------------------------------------------
\* The on-chain verifier and the contract registry.

\* ContractRegistry.contracts (TESTNET_CONTRACTS).
Contracts ==
  [faucet |-> "0xfaucet", vaultUSDC |-> "0xvaultusdc", strategyUSDC |-> "0xstrategyusdc"]

\* The chain: the receipt of each transaction hash on Base Sepolia.
Receipts ==
  [h \in {"txVault", "txFailed", "txElsewhere", "txStrategy", "txFaucet", "txCreate"} |->
     CASE h = "txVault" -> [status |-> 1, to |-> "0xvaultusdc"]
       [] h = "txStrategy" -> [status |-> 1, to |-> "0xstrategyusdc"]
       [] h = "txFaucet" -> [status |-> 1, to |-> "0xfaucet"]
       [] h = "txCreate" -> [status |-> 1, to |-> "none"]
       [] h = "txFailed" -> [status |-> 0, to |-> "0xvaultusdc"]
       [] h = "txElsewhere" -> [status |-> 1, to |-> "0xother"]]

\* ContractRegistry.isNuviaContract.
IsNuviaContract(address) ==
  address # "none" /\ \E k \in DOMAIN Contracts : Contracts[k] = address

\* ContractRegistry.getExpectedContract.
GetExpectedContract(eventType, m) ==
  CASE eventType = "claim_faucet" -> Contracts.faucet
    [] eventType \in {"deposit", "withdraw"} ->
         IF m.tokenSymbol = "USDC" THEN Contracts.vaultUSDC ELSE "none"
    [] eventType = "supply" ->
         IF m.tokenSymbol = "USDC" THEN Contracts.strategyUSDC ELSE "none"
    [] OTHER -> "none"

\* The transactions for which the provider's getTransactionReceipt rejects:
\* the RPC call times out or answers with an error.
RpcErrors == {"txTimeout"}

\* A catch that takes the error for a success.
CatchVerifyPasses(reason) == [verified |-> TRUE, reason |-> reason, to |-> "none"]

\* verifyTransaction lines 500-511, the catch: verified false, the error's
\* message as the reason.
CatchVerify(reason) == [verified |-> FALSE, reason |-> reason, to |-> "none"]

\* Web3Service.verifyTransaction; getProvider throws for a chain without a
\* provider and getTransactionReceipt may reject, both inside the try.
VerifyTransaction(txHash, chainId, expectedContract) ==
  IF chainId # BaseSepolia
    THEN CatchVerify(Msg("No provider configured for chain ID", chainId))
  ELSE IF txHash \in RpcErrors
    THEN CatchVerify(Msg("timeout", 0))
  ELSE IF txHash \notin DOMAIN Receipts
    THEN [verified |-> FALSE, reason |-> Msg("Transaction not found or not confirmed", 0),
          to |-> "none"]
  ELSE IF Receipts[txHash].status # 1
    THEN [verified |-> FALSE, reason |-> Msg("Transaction failed", 0), to |-> "none"]
  ELSE IF expectedContract # "none" /\ Receipts[txHash].to # expectedContract
    THEN [verified |-> FALSE, reason |-> Msg("Transaction not sent to expected contract", 0),
          to |-> "none"]
  ELSE [verified |-> TRUE, reason |-> NoMsg, to |-> Receipts[txHash].to]

\* verifyOnchainEvent lines 148-161: the expected contract is the caller's
\* contractAddress, or else, when a token symbol is given, the registry's for
\* metadata.eventType || 'deposit'.
ExpectedContract(m) ==
  LET eventType == IF m.eventType # "none" THEN m.eventType ELSE "deposit" IN
  IF m.contractAddress # "none" THEN m.contractAddress
  ELSE IF m.tokenSymbol # "none" THEN GetExpectedContract(eventType, m)
  ELSE "none"

\* XPService.verifyOnchainEvent.
VerifyOnchainEvent(m) ==
  LET v == VerifyTransaction(m.txHash, m.chainId, ExpectedContract(m)) IN
  IF v.verified /\ v.to # "none" /\ ~IsNuviaContract(v.to)
    THEN [verified |-> FALSE,
          reason |-> Msg("Transaction not sent to a valid Nuvia contract", 0), to |-> v.to]
    ELSE v

----------------------------------------------------------------------------
\* The Event model (models/Event.js).

\* The error result a throwing call leaves to its caller; an error message is
\* the sequence of its parts, the second, if any, a value put into the text.
Threw(text) ==
  [NoRes EXCEPT !.kind = "error", !.message = Msg(text[1], 0),
                !.detail = IF Len(text) > 1 THEN text[2] ELSE ""]

\* The unique index on (userId, dedupKey).
DuplicateKey(u, k) ==
  \E i \in EventIds : events[i].userId = u /\ events[i].dedupKey = k

\* Event.createEvent: the document it inserts.
NewEvent(u, actionType, m, k) ==
  [userId |-> u, type |-> actionType, dedupKey |-> k, status |-> "recorded",
   reason |-> NoMsg, occurredAt |-> now, txHash |-> m.txHash]

\* event.markVerified / markProcessed: the status saved on the document.
Mark(i, st) == [events EXCEPT ![i].status = st]

\* event.markFailed(reason): status failed and the reason, saved on the document.
MarkFailed(i, why) == [events EXCEPT ![i].status = "failed", ![i].reason = why]

\* The message of the storage layer's duplicate-key error.
DuplicateKeyError == "E11000 duplicate key error"

\* The parts of error messages that contain the substring 'duplicate'.
HasDuplicate(part) == part \in {DuplicateKeyError, "duplicate_strategy"}

\* A test that takes no error for a duplicate.
IncludesDuplicateNever(text) == FALSE

\* processEvent line 122: error.message.includes('duplicate').
IncludesDuplicate(text) == \E i \in 1..Len(text) : HasDuplicate(text[i])

\* processEvent lines 121-139: the duplicate outcome, or the error thrown on.
Catch(q, text) ==
  IF IncludesDuplicate(text)
    THEN [q EXCEPT !.pc = "done",
                   !.res = [NoRes EXCEPT !.kind = "duplicate",
                               !.message = Msg("Event already processed (duplicate)", 0)]]
    ELSE [q EXCEPT !.pc = "threw", !.res = Threw(text)]

\* What a throw inside a request leads to: processEvent catches, others throw on.
OnThrow(q, text) ==
  IF q.op = "processEvent" THEN Catch(q, text)
  ELSE [q EXCEPT !.pc = "threw", !.res = Threw(text)]

----------------------------------------------------------------------------
\* XPLedger.addXP, one step per await.

\* The balance addXP computes from the user document it read.
BalanceAfter(bal, deltaXP) == bal + deltaXP

\* addXP line 77: the guard that rejects a negative resulting balance.
Insufficient(balanceAfter) == balanceAfter < 0

\* What XPLedger.create's validators accept (reason enum, balanceAfter min 0).
EntryValid(reason, balanceAfter) == reason \in ReasonEnum /\ balanceAfter >= 0

\* The message of the validation error for a reason outside the enum, which
\* quotes the value.
ValidationMessage(reason) ==
  <<"XPLedger validation failed: reason: ", reason,
    " is not a valid enum value for path reason.">>

\* A direct caller of addXP starts (a reward, an adjustment or a penalty).
CallAddXP(p, u, d, r) ==
  /\ procs[p].pc = "idle"
  /\ calls < MaxCalls
  /\ calls' = calls + 1
  /\ procs' = [procs EXCEPT ![p] =
       [Idle EXCEPT !.op = "addXP", !.pc = "ax_read", !.user = u, !.delta = d,
                    !.reason = r]]
  /\ UNCHANGED <<now, totalXP, ledger, events, quests, rules, referral, firstLoginAt, referrals, xprules, auth>>

\* joinWaitlist's reward to the referrer: addXP(referrerUser._id, 100, 'other').
JoinWaitlistReward(p, u) ==
  /\ procs[p].pc = "idle"
  /\ calls < MaxCalls
  /\ calls' = calls + 1
  /\ procs' = [procs EXCEPT ![p] =
       [Idle EXCEPT !.op = "joinWaitlist", !.pc = "ax_read", !.user = u,
                    !.delta = WaitlistReferralXP, !.reason = "other"]]
  /\ UNCHANGED <<now, totalXP, ledger, events, quests, rules, referral, firstLoginAt, referrals, xprules, auth>>

\* addXP lines 69-79: User.findById, then the balance computation and its guard.
AddXP_Read(p) ==
  LET q == procs[p] IN
  /\ q.pc = "ax_read"
  /\ procs' = [procs EXCEPT ![p] =
       IF q.user \notin Users
         THEN OnThrow(q, <<"User not found">>)
       ELSE IF Insufficient(BalanceAfter(totalXP[q.user], q.delta))
         THEN OnThrow([q EXCEPT !.bal = totalXP[q.user]],
                      <<"Insufficient XP balance">>)
       ELSE [q EXCEPT !.pc = "ax_create", !.bal = totalXP[q.user]]]
  /\ UNCHANGED <<now, totalXP, ledger, events, quests, rules, calls, referral, firstLoginAt, referrals, xprules, auth>>

\* An insert that takes the place of the newest entry.
CreateEntryOverLast(l, entry) ==
  IF l = <<>> THEN <<entry>> ELSE [l EXCEPT ![Len(l)] = entry]

\* XPLedger.create: the entry is inserted as a new document of the collection.
CreateEntry(l, entry) == Append(l, entry)

\* addXP lines 82-90: XPLedger.create of the entry, validated by the schema.
AddXP_Create(p) ==
  LET q == procs[p]
      b == BalanceAfter(q.bal, q.delta) IN
  /\ q.pc = "ax_create"
  /\ IF EntryValid(q.reason, b)
       THEN /\ ledger' = CreateEntry(ledger,
                 [userId |-> q.user, eventId |-> q.evt, deltaXP |-> q.delta,
                  balanceAfter |-> b, reason |-> q.reason])
            /\ procs' = [procs EXCEPT ![p] = [q EXCEPT !.pc = "ax_write", !.wrote = 1]]
       ELSE /\ ledger' = ledger
            /\ procs' = [procs EXCEPT ![p] = OnThrow(q, ValidationMessage(q.reason))]
  /\ UNCHANGED <<now, totalXP, events, quests, rules, calls, referral, firstLoginAt, referrals, xprules, auth>>

\* distributeRewards(inviterXP = 500, inviteeXP = 100): the default rewards.
InviterXP == 500
InviteeXP == 100

\* Where addXP returns to: processEvent goes on to markProcessed;
\* distributeRewards calls addXP for the invitee after the inviter's, and saves
\* the referral after the invitee's; a direct caller answers.
AfterAward(q) ==
  IF q.op = "processEvent" THEN [q EXCEPT !.pc = "markProcessed"]
  ELSE IF q.op = "distributeRewards" /\ q.reason = "referral_reward_inviter"
    THEN [q EXCEPT !.pc = "ax_read", !.user = q.doc.inviteeUserId, !.delta = InviteeXP,
                   !.reason = "referral_reward_invitee"]
  ELSE IF q.op = "distributeRewards" THEN [q EXCEPT !.pc = "dr_save"]
  ELSE [q EXCEPT !.pc = "done",
                 !.res = [NoRes EXCEPT !.kind = "ok", !.success = TRUE,
                                       !.xpAwarded = q.delta]]

\* addXP line 93: User.findByIdAndUpdate(userId, {totalXP: balanceAfter}).
AddXP_Write(p) ==
  LET q == procs[p] IN
  /\ q.pc = "ax_write"
  /\ totalXP' = [totalXP EXCEPT ![q.user] = BalanceAfter(q.bal, q.delta)]
  /\ procs' = [procs EXCEPT ![p] = AfterAward([q EXCEPT !.xpw = 1])]
  /\ UNCHANGED <<now, ledger, events, quests, rules, calls, referral, firstLoginAt, referrals, xprules, auth>>

\* The request has answered; its slot is free again.
Return(p) ==
  /\ procs[p].pc \in {"done", "threw"}
  /\ procs' = [procs EXCEPT ![p] = Idle]
  /\ UNCHANGED <<now, totalXP, ledger, events, quests, rules, calls, referral, firstLoginAt, referrals, xprules, auth>>

----------------------------------------------------------------------------
\* Quests (models/Quest.js, models/QuestProgress.js).

\* The active quests with an event-count rule, in the order Quest.find returns
\* them: three deposits a day, reward 50; a first supply, once; two supplies a
\* week.
ActiveQuests ==
  {[id |-> "daily_deposit", cadence |-> "daily", eventType |-> "deposit",
    target |-> 3, reward |-> 50, order |-> 1],
   [id |-> "first_supply", cadence |-> "one-time", eventType |-> "supply",
    target |-> 1, reward |-> 50, order |-> 2],
   [id |-> "weekly_supply", cadence |-> "weekly", eventType |-> "supply",
    target |-> 2, reward |-> 50, order |-> 3]}

\* updateQuestProgress lines 227-229: the Sunday of the week of t, at local
\* midnight; the day of tick 0 is a Sunday.
StartOfWeek(t) == StartOfDay(t) - DayLen * ((StartOfDay(t) \div DayLen) % 7)

\* updateQuestProgress lines 220-234: the period of a daily quest starts at
\* local midnight, that of a weekly quest on Sunday at local midnight.
PeriodStart(quest, t) ==
  CASE quest.cadence = "daily" -> StartOfDay(t)
    [] quest.cadence = "weekly" -> StartOfWeek(t)
    [] OTHER -> NoPeriod

\* updateQuestProgress lines 213-216: Quest.find, the active quests with an
\* event-count rule on the action type, in the order the store returns them.
QuestsFor(actionType) ==
  LET S == {x \in ActiveQuests : x.eventType = actionType} IN
  CHOOSE f \in [1..Cardinality(S) -> S] :
    \A i, j \in 1..Cardinality(S) : i < j => f[i].order < f[j].order

\* The progress row of a user for a quest and a period.
RowKey(u, quest, periodStart) == <<u, quest.id, periodStart>>

\* QuestProgress.getOrCreate: the row of the period if present, and a new row
\* with progressValue 0 otherwise.
GetOrCreate(k) ==
  IF k \in DOMAIN quests THEN quests
  ELSE [x \in DOMAIN quests \cup {k} |-> IF x = k THEN 0 ELSE quests[x]]

\* progress.updateProgress(1, eventId) increments progressValue: the values the
\* row may have afterwards, the stored value incremented, or the value that was
\* loaded with the document incremented and saved.
UpdateProgress(k, loaded) == {quests[k] + 1, loaded + 1}

----------------------------------------------------------------------------
\* XPService.processEvent, one step per await.

\* A rejection result that carries no next-eligible time.
RejectedBare(text, n, detail, nextAvailableAt) ==
  [NoRes EXCEPT !.kind = "fail", !.message = Msg(text, n), !.detail = detail]

\* The rejection result of a failed check.
Rejected(text, n, detail, nextAvailableAt) ==
  [NoRes EXCEPT !.kind = "fail", !.message = Msg(text, n), !.detail = detail,
                !.nextAvailableAt = nextAvailableAt]

\* A rejection that leaves the event as it was.
FailEventSkipped(i, why) == events

\* processEvent lines 41, 53, 66, 80: await event.markFailed(<the check's reason>).
FailEvent(i, why) == MarkFailed(i, why)

\* What the properties remember of the events of a user at a check: the time
\* of the latest event of the type that passed every check, or -1.
LastPassedAt(u, actionType) ==
  LET ids == {i \in EventIds : /\ events[i].userId = u /\ events[i].type = actionType
                               /\ events[i].status \in {"verified", "processed"}} IN
  IF ids = {} THEN -1
  ELSE CHOOSE t \in {events[i].occurredAt : i \in ids} :
         \A i \in ids : events[i].occurredAt <= t

\* The user's processed events of the type that occurred on the day of t.
ProcessedToday(u, actionType, t) ==
  {i \in EventIds : /\ events[i].userId = u /\ events[i].type = actionType
                    /\ events[i].status = "processed"
                    /\ events[i].occurredAt \div DayLen = t \div DayLen}

\* The user's other events of the type that occurred on the day of t or later.
OthersToday(u, actionType, t, self) ==
  {i \in EventIds \ {self} : /\ events[i].userId = u /\ events[i].type = actionType
                             /\ events[i].occurredAt \div DayLen >= t \div DayLen}

\* processEvent lines 11-21 and the catch, lines 121-129: Event.createEvent
\* inserts the event, or fails on the unique index and the catch answers.
PE_Submit(p, u, actionType, m, k) ==
  LET q == [Idle EXCEPT !.op = "processEvent", !.user = u, !.type = actionType,
                        !.meta = m, !.key = k,
                        !.pre = IF actionType \in DOMAIN rules /\ rules[actionType].dailyLimit >= 1
                                  THEN Cardinality(ProcessedToday(u, actionType, now))
                                  ELSE 0] IN
  /\ procs[p].pc = "idle"
  /\ calls < MaxCalls
  /\ calls' = calls + 1
  /\ IF DuplicateKey(u, k)
       THEN /\ events' = events
            /\ procs' = [procs EXCEPT ![p] = Catch(q, <<DuplicateKeyError>>)]
       ELSE /\ events' = Append(events, NewEvent(u, actionType, m, k))
            /\ procs' = [procs EXCEPT ![p] =
                 [q EXCEPT !.pc = "rule", !.evt = Len(events) + 1]]
  /\ UNCHANGED <<now, totalXP, ledger, quests, rules, referral, firstLoginAt, referrals, xprules, auth>>

\* processEvent lines 23-26: XPRule.getRuleByAction.
PE_GetRule(p) ==
  LET q == procs[p]
      r == GetRuleByAction(q.type)
      h == [q EXCEPT !.hadRule = IF \E t \in DOMAIN rules :
                                      rules[t].actionType = q.type /\ rules[t].isActive
                                 THEN "yes" ELSE "no"] IN
  /\ q.pc = "rule"
  /\ procs' = [procs EXCEPT ![p] =
       IF r = NoRule THEN [h EXCEPT !.pc = "norule"]
       ELSE [h EXCEPT !.pc = "validate", !.rule = r]]
  /\ UNCHANGED <<now, totalXP, ledger, events, quests, rules, calls, referral, firstLoginAt, referrals, xprules, auth>>

\* A lookup that takes the absence of a rule for a failure.
PE_NoRuleFails(p) ==
  LET q == procs[p] IN
  /\ q.pc = "norule"
  /\ events' = MarkFailed(q.evt, Msg("No active rule found for this action", 0))
  /\ procs' = [procs EXCEPT ![p] =
       [q EXCEPT !.pc = "done", !.marks = q.marks + 1,
                 !.res = [NoRes EXCEPT !.kind = "fail",
                            !.message = Msg("No active rule found for this action", 0)]]]
  /\ UNCHANGED <<now, totalXP, ledger, quests, rules, calls, referral, firstLoginAt, referrals, xprules, auth>>

\* processEvent lines 27-35: no rule, the event is marked processed, 0 XP.
PE_NoRule(p) ==
  LET q == procs[p] IN
  /\ q.pc = "norule"
  /\ events' = Mark(q.evt, "processed")
  /\ procs' = [procs EXCEPT ![p] =
       [q EXCEPT !.pc = "done", !.marks = q.marks + 1,
                 !.res = [NoRes EXCEPT !.kind = "ok", !.success = TRUE,
                            !.message = Msg("Event recorded but no XP rule configured", 0)]]]
  /\ UNCHANGED <<now, totalXP, ledger, quests, rules, calls, referral, firstLoginAt, referrals, xprules, auth>>

\* The continuation of a failed check: the reason and the result are kept for
\* event.markFailed and the return that follow it.
ToMarkFailed(q, why, result) == [q EXCEPT !.pc = "markFailed", !.why = why, !.rej = result]

\* A test that sends no submission to the on-chain verification.
NeedsVerifyNever(m) == FALSE

\* processEvent line 76: metadata.txHash && metadata.chainId.
NeedsVerify(m) == m.txHash # "none" /\ m.chainId # 0

\* processEvent lines 65-76: a failed limit check goes to markFailed and
\* returns; a passed one goes to the on-chain verification when the metadata
\* carries txHash and chainId, and to the award otherwise.
AfterLimit(q, withinLimit, why, result) ==
  IF ~withinLimit THEN ToMarkFailed(q, why, result)
  ELSE IF NeedsVerify(q.meta)
    THEN [q EXCEPT !.pc = "verify"]
    ELSE [q EXCEPT !.pc = "ax_read", !.delta = q.rule.xpAmount, !.reason = q.type]

\* processEvent lines 64-76: checkDailyLimit has returned, for the startOfDay
\* it computed at q.limAt.
AfterCheckDailyLimit(q) ==
  LET l == CheckDailyLimit(q.rule, q.user, q.limAt)
      h == [q EXCEPT !.ran = Append(q.ran, "limit"),
                     !.limN = Cardinality(ProcessedToday(q.user, q.type, q.limAt)),
                     !.limOthers = Cardinality(OthersToday(q.user, q.type, q.limAt, q.evt)),
                     !.limBy = l.by] IN
  AfterLimit(h, l.withinLimit, l.reason, Rejected(l.reason.text, l.reason.n, "", -1))

\* processEvent line 64 at time t, the call of rule.checkDailyLimit: without a
\* daily limit it returns at once (LeaderboardRow.js lines 399-401); with one it
\* reads the clock for its startOfDay (lines 404-405) and awaits its query.
CallCheckDailyLimit(q, t) ==
  IF q.rule.dailyLimit = 0 THEN AfterCheckDailyLimit([q EXCEPT !.limAt = t])
  ELSE [q EXCEPT !.pc = "limit", !.limAt = t]

\* processEvent lines 51-64: canUserEarnXP has returned c, at time t; a failed
\* check goes to markFailed, a passed one to checkDailyLimit.
AfterCanUserEarnXP(q, c, t) ==
  LET h == [q EXCEPT !.ran = Append(q.ran, "cooldown"),
                     !.cdLast = LastPassedAt(q.user, q.type), !.cdBy = c.by] IN
  IF c.canEarn THEN CallCheckDailyLimit(h, t)
  ELSE ToMarkFailed(h, c.reason, Rejected(c.reason.text, c.reason.n, "", c.nextAvailableAt))

\* processEvent line 51 at time t, the call of rule.canUserEarnXP: without a
\* cooldown it returns at once (LeaderboardRow.js lines 368-370); with one it
\* reads the clock for its cutoffTime (line 374) and awaits its query.
CallCanUserEarnXP(q, t) ==
  IF q.rule.cooldownMinutes = 0
    THEN AfterCanUserEarnXP(q, CHOOSE c \in CanUserEarnXP(q.rule, q.user, t, t) : TRUE, t)
  ELSE [q EXCEPT !.pc = "cooldown", !.cdAt = t]

\* processEvent lines 37-51: await XPRule.validateEvent; a valid event goes on
\* to the cooldown check.
PE_Validate(p) ==
  LET q == procs[p]
      v == ValidateEvent(q.type, q.meta)
      h == [q EXCEPT !.ran = Append(q.ran, "validate")] IN
  /\ q.pc = "validate"
  /\ procs' = [procs EXCEPT ![p] =
       IF v.valid THEN CallCanUserEarnXP(h, now)
       ELSE ToMarkFailed(h, v.reason, Rejected(v.reason.text, v.reason.n, "", -1))]
  /\ UNCHANGED <<now, totalXP, ledger, events, quests, rules, calls, referral, firstLoginAt, referrals, xprules, auth>>

\* processEvent line 51: await rule.canUserEarnXP, the query of the check
\* (LeaderboardRow.js lines 376-381) with the cutoffTime computed before it.
PE_Cooldown(p) ==
  LET q == procs[p] IN
  /\ q.pc = "cooldown"
  /\ \E c \in CanUserEarnXP(q.rule, q.user, q.cdAt, now) :
       procs' = [procs EXCEPT ![p] = AfterCanUserEarnXP(q, c, now)]
  /\ UNCHANGED <<now, totalXP, ledger, events, quests, rules, calls, referral, firstLoginAt, referrals, xprules, auth>>

\* processEvent line 64: await rule.checkDailyLimit, the query of the
\* check (LeaderboardRow.js lines 407-412) with the startOfDay computed before
\* it.
PE_Limit(p) ==
  LET q == procs[p] IN
  /\ q.pc = "limit"
  /\ procs' = [procs EXCEPT ![p] = AfterCheckDailyLimit(q)]
  /\ UNCHANGED <<now, totalXP, ledger, events, quests, rules, calls, referral, firstLoginAt, referrals, xprules, auth>>

\* processEvent lines 75-79: await verifyOnchainEvent.
PE_Verify(p) ==
  LET q == procs[p]
      v == VerifyOnchainEvent(q.meta)
      h == [q EXCEPT !.ran = Append(q.ran, "verify"),
                     !.ver = IF v.verified THEN "yes" ELSE "no",
                     !.exp = ExpectedContract(q.meta)] IN
  /\ q.pc = "verify"
  /\ procs' = [procs EXCEPT ![p] =
       IF v.verified THEN [h EXCEPT !.pc = "markVerified"]
       ELSE ToMarkFailed(h, v.reason,
                         Rejected("Onchain verification failed", v.reason.n,
                                  v.reason.text, -1))]
  /\ UNCHANGED <<now, totalXP, ledger, events, quests, rules, calls, referral, firstLoginAt, referrals, xprules, auth>>

\* A request that goes on to the award after it marked its event failed.
AfterMarkFailedGoesOn(q) ==
  [q EXCEPT !.pc = "ax_read", !.marks = q.marks + 1, !.delta = q.rule.xpAmount,
            !.reason = q.type]

\* processEvent lines 42-47, 55-60, 67-72, 81-86: the return that follows
\* event.markFailed, with the failure result of the check.
AfterMarkFailed(q) == [q EXCEPT !.pc = "done", !.marks = q.marks + 1, !.res = q.rej]

\* processEvent lines 41-47, 53-60, 66-72, 80-86: await event.markFailed with
\* the reason of the failed check, then the failure result is returned.
PE_MarkFailed(p) ==
  LET q == procs[p] IN
  /\ q.pc = "markFailed"
  /\ events' = FailEvent(q.evt, q.why)
  /\ procs' = [procs EXCEPT ![p] = AfterMarkFailed(q)]
  /\ UNCHANGED <<now, totalXP, ledger, quests, rules, calls, referral, firstLoginAt, referrals, xprules, auth>>

\* processEvent lines 89-101: event.markVerified, then the award is called.
PE_MarkVerified(p) ==
  LET q == procs[p] IN
  /\ q.pc = "markVerified"
  /\ events' = Mark(q.evt, "verified")
  /\ procs' = [procs EXCEPT ![p] =
       [q EXCEPT !.pc = "ax_read", !.marks = q.marks + 1, !.delta = q.rule.xpAmount,
                 !.reason = q.type]]
  /\ UNCHANGED <<now, totalXP, ledger, quests, rules, calls, referral, firstLoginAt, referrals, xprules, auth>>

\* processEvent line 103: event.markProcessed after the award.
PE_MarkProcessed(p) ==
  LET q == procs[p] IN
  /\ q.pc = "markProcessed"
  /\ events' = Mark(q.evt, "processed")
  /\ procs' = [procs EXCEPT ![p] = [q EXCEPT !.pc = "quest", !.marks = q.marks + 1]]
  /\ UNCHANGED <<now, totalXP, ledger, quests, rules, calls, referral, firstLoginAt, referrals, xprules, auth>>

\* processEvent lines 108-120: updateQuestProgress has returned; the success
\* result.
Succeeded(q) ==
  [q EXCEPT !.pc = "done",
            !.res = [NoRes EXCEPT !.kind = "ok", !.success = TRUE,
                       !.xpAwarded = q.rule.xpAmount,
                       !.message = Msg("Successfully earned XP", q.rule.xpAmount)]]

\* A loop that ends after the first quest.
QuestLoopFirstOnly(q, t) ==
  IF q.qs = <<>> \/ q.qadv >= 1 THEN Succeeded(q)
  ELSE [q EXCEPT !.pc = "getOrCreate", !.per = PeriodStart(Head(q.qs), t)]

\* updateQuestProgress lines 217-241, the head of the loop at time t: the
\* period of the next quest is computed from the clock, and getOrCreate is
\* called; after the last quest the function returns.
QuestLoop(q, t) ==
  IF q.qs = <<>> THEN Succeeded(q)
  ELSE [q EXCEPT !.pc = "getOrCreate", !.per = PeriodStart(Head(q.qs), t)]

\* updateQuestProgress lines 213-216: await Quest.find.
PE_QuestFind(p) ==
  LET q == procs[p] IN
  /\ q.pc = "quest"
  /\ procs' = [procs EXCEPT ![p] =
       QuestLoop([q EXCEPT !.qs = QuestsFor(q.type)], now)]
  /\ UNCHANGED <<now, totalXP, ledger, events, quests, rules, calls, referral, firstLoginAt, referrals, xprules, auth>>

\* updateQuestProgress lines 236-241: await QuestProgress.getOrCreate.
PE_QuestGetOrCreate(p) ==
  LET q == procs[p]
      k == RowKey(q.user, Head(q.qs), q.per) IN
  /\ q.pc = "getOrCreate"
  /\ quests' = GetOrCreate(k)
  /\ procs' = [procs EXCEPT ![p] = [q EXCEPT !.pc = "updateProgress", !.prog = quests'[k]]]
  /\ UNCHANGED <<now, totalXP, ledger, events, rules, calls, referral, firstLoginAt, referrals, xprules, auth>>

\* updateQuestProgress line 243: await progress.updateProgress(1, eventId);
\* then the next quest of the loop.
PE_QuestUpdateProgress(p) ==
  LET q == procs[p]
      k == RowKey(q.user, Head(q.qs), q.per) IN
  /\ q.pc = "updateProgress"
  /\ \E v \in UpdateProgress(k, q.prog) : quests' = [quests EXCEPT ![k] = v]
  /\ procs' = [procs EXCEPT ![p] =
       QuestLoop([q EXCEPT !.qs = Tail(q.qs), !.qadv = q.qadv + 1], now)]
  /\ UNCHANGED <<now, totalXP, ledger, events, rules, calls, referral, firstLoginAt, referrals, xprules, auth>>

\* Time passes, between requests and between the awaited calls of a request.
\* The clock stops once the last request has answered.
Tick ==
  /\ now < MaxTime
  /\ calls < MaxCalls \/ \E p \in Procs : procs[p].pc # "idle"
  /\ now' = now + 1
  /\ UNCHANGED <<totalXP, ledger, events, quests, rules, procs, calls, referral, firstLoginAt, referrals, xprules, auth>>

\* The steps of a request after its first, for an action type that has a rule.
Step(p) ==
  \/ PE_GetRule(p)
  \/ PE_Validate(p)
  \/ PE_Cooldown(p)
  \/ PE_Limit(p)
  \/ PE_Verify(p)
  \/ PE_MarkFailed(p)
  \/ PE_MarkVerified(p)
  \/ AddXP_Read(p)
  \/ AddXP_Create(p)
  \/ AddXP_Write(p)
  \/ PE_MarkProcessed(p)
  \/ PE_QuestFind(p)
  \/ Return(p)

\* The steps of updateQuestProgress on the progress row of a matching quest.
QuestStep(p) ==
  \/ PE_QuestGetOrCreate(p)
  \/ PE_QuestUpdateProgress(p)

----------------------------------------------------------------------------
Init ==
  /\ now = 0
  /\ totalXP = [u \in Users |-> 0]
  /\ ledger = <<>>
  /\ events = <<>>
  /\ quests = [k \in {} |-> 0]
  /\ rules = InitialRules
  /\ procs = [p \in Procs |-> Idle]
  /\ calls = 0
  /\ referral = NewReferral
  /\ firstLoginAt = [u \in Users |-> FALSE]
  /\ referrals = <<NewReferral>>
  /\ xprules = InitialRows
  /\ auth = NoAuth

\* A new request takes the first free slot.
FirstFree(p) == procs[p].pc = "idle" /\ \A r \in Procs : r < p => procs[r].pc # "idle"

\* The deltas and reasons direct callers of addXP pass.
Deltas == {-2, 1}
DirectReasons == {"admin_adjustment"}

NextLedger ==
  \E p \in Procs :
    \/ \E u \in Users \cup {NoUser}, d \in Deltas, r \in DirectReasons :
         FirstFree(p) /\ CallAddXP(p, u, d, r)
    \/ \E u \in Users : FirstFree(p) /\ JoinWaitlistReward(p, u)
    \/ AddXP_Read(p)
    \/ AddXP_Create(p)
    \/ AddXP_Write(p)
    \/ Return(p)

SpecLedger == Init /\ [][NextLedger]_vars

\* User.incrementXP (LeaderboardRow.js lines 205-212): findOneAndUpdate with
\* $inc on totalXP, one atomic update of the user document.
IncrementXP(u, deltaXP) ==
  /\ calls < MaxCalls
  /\ calls' = calls + 1
  /\ totalXP' = [totalXP EXCEPT ![u] = totalXP[u] + deltaXP]
  /\ UNCHANGED <<now, ledger, events, quests, rules, procs, referral, firstLoginAt,
                 referrals, xprules, auth>>

\* The operations that write User.totalXP or the ledger: addXP through its
\* callers, in concurrent requests, and incrementXP.
NextUser ==
  \/ \E u \in Users, d \in Deltas : IncrementXP(u, d)
  \/ \E p \in Procs :
       \/ \E u \in Users, d \in Deltas, r \in DirectReasons :
            FirstFree(p) /\ CallAddXP(p, u, d, r)
       \/ AddXP_Read(p)
       \/ AddXP_Create(p)
       \/ AddXP_Write(p)
       \/ Return(p)

SpecUser == Init /\ [][NextUser]_vars

\* The submissions of the runs: metadata as clients send it.
DepositOk ==
  [NoMeta EXCEPT !.chainId = BaseSepolia, !.amount = 15, !.txHash = "txVault",
                 !.tokenSymbol = "USDC"]
DepositWrongChain == [DepositOk EXCEPT !.chainId = 1]
DepositSmall == [DepositOk EXCEPT !.amount = 5]
DepositFailedTx == [DepositOk EXCEPT !.txHash = "txFailed"]
WithdrawOk == [DepositOk EXCEPT !.amount = 0]

StrategyTx == [NoMeta EXCEPT !.chainId = BaseSepolia, !.txHash = "txVault"]

\* The request slots the pipeline runs use: two concurrent requests.
Pair == {p \in Procs : p <= 2}

\* One request at a time.
One == {p \in Procs : p <= 1}

\* Submissions that exercise every check of the pipeline.
CheckInputs ==
  {<<"deposit", DepositOk>>, <<"deposit", DepositWrongChain>>,
   <<"deposit", DepositFailedTx>>, <<"select_strategy", NoMeta>>,
   <<"claim_faucet", NoMeta>>, <<"swap", NoMeta>>}

\* The pipeline under concurrent submissions, each with a key of its own.
Next ==
  \E p \in Pair :
    \/ \E in \in CheckInputs : FirstFree(p) /\ PE_Submit(p, "u1", in[1], in[2], calls + 1)
    \/ PE_NoRule(p)
    \/ Step(p)
    \/ QuestStep(p)

Spec == Init /\ [][Next]_vars

\* Submissions of the rules with a cooldown or a daily limit.
TimedInputs ==
  {<<"u1", "claim_faucet", NoMeta>>, <<"u1", "select_strategy", StrategyTx>>,
   <<"u2", "claim_faucet", NoMeta>>}

\* The pipeline over several days, request after request, while time passes
\* between the requests and between the awaited calls of a request.
NextTime ==
  \/ Tick
  \/ \E p \in One :
       \/ \E in \in TimedInputs : PE_Submit(p, in[1], in[2], in[3], calls + 1)
       \/ Step(p)

SpecTime == Init /\ [][NextTime]_vars

\* A claim of the faucet with its transaction, which went to the faucet.
FaucetTx == [NoMeta EXCEPT !.chainId = BaseSepolia, !.txHash = "txFaucet"]

\* Submissions of a user under the rule with a cooldown and a daily limit.
RaceInputs == {<<"u1", "claim_faucet", FaucetTx>>}

\* The pipeline over several days under concurrent submissions, MaxRaces of
\* them.
NextRace ==
  \/ Tick
  \/ \E p \in Pair :
       \/ \E in \in RaceInputs :
            /\ calls < MaxRaces
            /\ FirstFree(p) /\ PE_Submit(p, in[1], in[2], in[3], calls + 1)
       \/ Step(p)

SpecRace == Init /\ [][NextRace]_vars

\* Submissions that repeat dedup keys.
Keys == {1, 2}
DedupInputs ==
  {<<"u1", "deposit", DepositOk>>, <<"u1", "withdraw", WithdrawOk>>,
   <<"u1", "duplicate_strategy", NoMeta>>, <<"u2", "deposit", DepositOk>>}

NextDedup ==
  \E p \in Pair :
    \/ \E in \in DedupInputs, k \in Keys : FirstFree(p) /\ PE_Submit(p, in[1], in[2], in[3], k)
    \/ Step(p)
    \/ QuestStep(p)

SpecDedup == Init /\ [][NextDedup]_vars

\* admin.controller updateXPRule with {isActive: false} for the id of the
\* rule of the action type: findByIdAndUpdate sets isActive on the row, and the
\* rule is found no more.
DeactivateRule(actionType) ==
  /\ \E id \in RulesWith(actionType) :
       /\ xprules[id].isActive
       /\ xprules' = [xprules EXCEPT ![id].isActive = FALSE]
  /\ rules' = RulesOf(xprules')
  /\ UNCHANGED <<now, totalXP, ledger, events, quests, procs, calls, referral, firstLoginAt, referrals, auth>>

\* Submissions for the checks of validateEvent: chain, protocol and amount
\* given, wrong or absent; a type without a rule; a type with a cooldown.
DepositNoChain == [NoMeta EXCEPT !.amount = 15]
DepositNoAmount == [DepositOk EXCEPT !.amount = 0]
BorrowAave == [NoMeta EXCEPT !.protocol = "aave"]
BorrowOther == [NoMeta EXCEPT !.protocol = "compound"]
ValidateInputs ==
  {<<"deposit", DepositOk>>, <<"deposit", DepositWrongChain>>, <<"deposit", DepositSmall>>,
   <<"deposit", DepositNoChain>>, <<"deposit", DepositNoAmount>>,
   <<"borrow", BorrowAave>>, <<"borrow", BorrowOther>>, <<"borrow", NoMeta>>,
   <<"claim_faucet", NoMeta>>, <<"select_strategy", NoMeta>>, <<"swap", NoMeta>>}

\* The pipeline, request after request, while an administrator may deactivate
\* the rule of 'borrow'.
NextValidate ==
  \/ DeactivateRule("borrow")
  \/ \E p \in One :
       \/ \E in \in ValidateInputs : PE_Submit(p, "u1", in[1], in[2], calls + 1)
       \/ PE_NoRule(p)
       \/ Step(p)
       \/ QuestStep(p)

SpecValidate == Init /\ [][NextValidate]_vars

\* Submissions that carry a transaction: to the vault, failed, to a foreign
\* address, creating a contract, to the strategy, to the faucet.
DepositElsewhere == [DepositOk EXCEPT !.txHash = "txElsewhere", !.tokenSymbol = "none"]
DepositCreate == [DepositOk EXCEPT !.txHash = "txCreate", !.tokenSymbol = "none"]
SupplyOk == [DepositOk EXCEPT !.txHash = "txStrategy"]
FaucetOk == [NoMeta EXCEPT !.chainId = BaseSepolia, !.txHash = "txFaucet",
                           !.tokenSymbol = "USDC"]
\* A transaction whose receipt cannot be fetched, and one on a chain without a
\* provider, under a rule that takes every chain.
DepositTimeout == [DepositOk EXCEPT !.txHash = "txTimeout"]
FaucetOtherChain == [FaucetOk EXCEPT !.chainId = 1]
VerifyInputs ==
  {<<"deposit", DepositOk>>, <<"deposit", DepositFailedTx>>,
   <<"deposit", DepositElsewhere>>, <<"deposit", DepositCreate>>,
   <<"deposit", DepositNoChain>>, <<"supply", SupplyOk>>, <<"claim_faucet", FaucetOk>>,
   <<"deposit", DepositTimeout>>, <<"claim_faucet", FaucetOtherChain>>}

\* The pipeline with the on-chain verification, request after request.
NextVerify ==
  \E p \in One :
    \/ \E in \in VerifyInputs : PE_Submit(p, "u1", in[1], in[2], calls + 1)
    \/ Step(p)
    \/ QuestStep(p)

SpecVerify == Init /\ [][NextVerify]_vars

----------------------------------------------------------------------------
\* Wallet authentication (controllers/auth.controller.js, the nonce methods of
\* the User model).

\* The wallets of the requests: the wallet of u1, and a wallet no user has.
Wallets == {Wallet, "w0"}
\* The signature of a wallet's owner over the message of a nonce.
OwnerSignature(walletAddress, nonce) == [signer |-> walletAddress, nonce |-> nonce]
\* The signatures presented with a nonce: the wallet owner's and someone
\* else's over the message of the nonce, the owner's over another message.
Signatures(nonce) ==
  {OwnerSignature(Wallet, nonce), [signer |-> "mallory", nonce |-> nonce],
   OwnerSignature(Wallet, NoNonce)}

\* document.save() of a loaded copy, for one path: the save writes the copy's
\* value when the copy changed the path since the load, and leaves the stored
\* value otherwise.
Saved(stored, loadedValue, value) == IF value # loadedValue THEN value ELSE stored

\* The nonce fields of a user document in the store.
NonceFields(walletAddress) ==
  [nonce |-> auth.nonce[walletAddress], nonceExpiry |-> auth.nonceExpiry[walletAddress]]

\* User.generateNonce at time t, on the document as loaded: a fresh nonce
\* (nanoid, 32 characters) and an expiry 5 minutes after t.
GenerateNonce(fresh, t) == [nonce |-> fresh, nonceExpiry |-> t + NonceTicks]

\* requestNonce lines 39-73, for the wallet of a user that exists: await
\* User.findOne, then generateNonce on the document that was loaded.
RN_Find(p, walletAddress) ==
  /\ auth.reqs[p].pc = "idle"
  /\ walletAddress \in Users
  /\ auth.issued < MaxNonces
  /\ auth' = [auth EXCEPT
       !.issued = auth.issued + 1,
       !.reqs[p] = [AuthIdle EXCEPT !.pc = "saveNonce", !.wallet = walletAddress,
                                    !.nonce = auth.issued + 1,
                                    !.loaded = NonceFields(walletAddress),
                                    !.user = GenerateNonce(auth.issued + 1, now)]]
  /\ UNCHANGED <<now, totalXP, ledger, events, quests, rules, procs, calls, referral,
                 firstLoginAt, referrals, xprules>>

\* requestNonce lines 74-88: await user.save() writes the nonce, and the expiry
\* when generateNonce changed it on the loaded document, and the nonce is
\* answered.  After the save the copy has no unsaved change.
RN_Save(p) ==
  LET q == auth.reqs[p] IN
  /\ q.pc = "saveNonce"
  /\ auth' = [auth EXCEPT
       !.nonce[q.wallet] = Saved(auth.nonce[q.wallet], q.loaded.nonce, q.user.nonce),
       !.nonceExpiry[q.wallet] =
         Saved(auth.nonceExpiry[q.wallet], q.loaded.nonceExpiry, q.user.nonceExpiry),
       !.reqs[p] = [q EXCEPT !.pc = "done", !.loaded = q.user, !.res = "nonce"]]
  /\ UNCHANGED <<now, totalXP, ledger, events, quests, rules, procs, calls, referral,
                 firstLoginAt, referrals, xprules>>

\* User.verifyNonce at time t, on the document as loaded.
VerifyNonce(user, nonce, t) ==
  IF user.nonce = NoNonce \/ user.nonceExpiry = NoExpiry THEN FALSE
  ELSE IF user.nonce # nonce THEN FALSE
  ELSE IF t > user.nonceExpiry THEN FALSE
  ELSE TRUE

\* ethers.verifyMessage: the address recovered from a signature is the
\* signer's for the message that was signed, and some other address for any
\* other message.
RecoveredAddress(nonce, signature) ==
  IF signature.nonce = nonce THEN signature.signer ELSE "unknown"

\* web3Service.verifySignature: the recovered address against the expected.
VerifySignature(nonce, signature, expectedAddress) ==
  RecoveredAddress(nonce, signature) = expectedAddress

\* verifySignature lines 108-141: await User.findOne, then verifyNonce on the
\* document that was loaded, then the call of web3Service.verifySignature.
VS_Find(p, walletAddress, nonce, signature) ==
  LET doc == IF walletAddress \in Users THEN NonceFields(walletAddress)
                                        ELSE AuthIdle.user
      q == [AuthIdle EXCEPT !.wallet = walletAddress, !.nonce = nonce,
                            !.signature = signature, !.loaded = doc, !.user = doc] IN
  /\ auth.reqs[p].pc = "idle"
  /\ auth.tries < MaxCalls
  /\ auth' = [auth EXCEPT
       !.tries = auth.tries + 1,
       !.reqs[p] =
         IF walletAddress \notin Users
           THEN [q EXCEPT !.pc = "done", !.res = "User not found"]
         ELSE IF ~VerifyNonce(q.user, nonce, now)
           THEN [q EXCEPT !.pc = "done", !.res = "Invalid or expired nonce"]
         ELSE [q EXCEPT !.pc = "signature"]]
  /\ UNCHANGED <<now, totalXP, ledger, events, quests, rules, procs, calls, referral,
                 firstLoginAt, referrals, xprules>>

\* verifySignature lines 141-161: await web3Service.verifySignature; on a
\* valid signature clearNonce and the login metadata are set on the loaded
\* document, and save() is called.
VS_Signature(p) ==
  LET q == auth.reqs[p] IN
  /\ q.pc = "signature"
  /\ auth' = [auth EXCEPT !.reqs[p] =
       IF ~VerifySignature(q.nonce, q.signature, q.wallet)
         THEN [q EXCEPT !.pc = "done", !.res = "Invalid signature"]
       ELSE [q EXCEPT !.pc = "save", !.user = [nonce |-> NoNonce,
                                                nonceExpiry |-> NoExpiry]]]
  /\ UNCHANGED <<now, totalXP, ledger, events, quests, rules, procs, calls, referral,
                 firstLoginAt, referrals, xprules>>

\* verifySignature lines 161-183: await user.save() writes the cleared nonce
\* and the login metadata, a token is generated and the answer is 200.  The
\* token is listed with the nonce that was presented and the nonce that was
\* stored when the save took place.
VS_Save(p) ==
  LET q == auth.reqs[p] IN
  /\ q.pc = "save"
  /\ auth' = [auth EXCEPT
       !.nonce[q.wallet] = Saved(auth.nonce[q.wallet], q.loaded.nonce, q.user.nonce),
       !.nonceExpiry[q.wallet] =
         Saved(auth.nonceExpiry[q.wallet], q.loaded.nonceExpiry, q.user.nonceExpiry),
       !.tokens = Append(auth.tokens,
                         [nonce |-> q.nonce, stored |-> auth.nonce[q.wallet]]),
       !.reqs[p] = [q EXCEPT !.pc = "done", !.loaded = q.user,
                             !.res = "Authentication successful"]]
  /\ firstLoginAt' = [firstLoginAt EXCEPT ![q.wallet] = TRUE]
  /\ UNCHANGED <<now, totalXP, ledger, events, quests, rules, procs, calls, referral,
                 referrals, xprules>>

\* The request has answered; its slot is free again.
AuthReturn(p) ==
  /\ auth.reqs[p].pc = "done"
  /\ auth' = [auth EXCEPT !.reqs[p] = AuthIdle]
  /\ UNCHANGED <<now, totalXP, ledger, events, quests, rules, procs, calls, referral,
                 firstLoginAt, referrals, xprules>>

----------------------------------------------------------------------------
\* Referrals (models/Referral.js).  A method of a referral works on the copy
\* of the document its caller loaded; save() writes the fields the method
\* changed.

\* A caller loads the referral and calls checkVerification on it.
CV_Load(p) ==
  /\ procs[p].pc = "idle"
  /\ calls < MaxRefCalls
  /\ calls' = calls + 1
  /\ procs' = [procs EXCEPT ![p] =
       [Idle EXCEPT !.op = "checkVerification", !.pc = "cv_user", !.doc = referral]]
  /\ UNCHANGED <<now, totalXP, ledger, events, quests, rules, referral, firstLoginAt, referrals, xprules, auth>>

\* checkVerification lines 204-215: with all criteria met and status pending
\* the copy becomes verified and is saved; otherwise the method returns.
CV_Decide(q) ==
  IF /\ q.doc.firstLogin /\ q.doc.firstOnchainAction /\ q.doc.minXPReached
     /\ q.doc.status = "pending"
    THEN [q EXCEPT !.pc = "cv_save", !.doc.status = "verified"]
    ELSE [q EXCEPT !.pc = "done", !.res = [NoRes EXCEPT !.kind = "notVerified"]]

\* checkVerification lines 198-201: the threshold, against the invitee as read.
CV_MinXP(q) ==
  IF ~q.doc.minXPReached /\ q.invitee.xp >= q.doc.minXPThreshold
    THEN [q EXCEPT !.doc.minXPReached = TRUE] ELSE q

\* checkVerification lines 175-183: User.findById(invitee), the first login.
CV_ReadInvitee(p) ==
  LET q == procs[p]
      u == q.doc.inviteeUserId
      h == [q EXCEPT !.invitee = [login |-> firstLoginAt[u], xp |-> totalXP[u]],
                     !.doc.firstLogin = q.doc.firstLogin \/ firstLoginAt[u]] IN
  /\ q.pc = "cv_user"
  /\ procs' = [procs EXCEPT ![p] =
       IF h.doc.firstOnchainAction THEN CV_Decide(CV_MinXP(h))
       ELSE [h EXCEPT !.pc = "cv_event"]]
  /\ UNCHANGED <<now, totalXP, ledger, events, quests, rules, calls, referral, firstLoginAt, referrals, xprules, auth>>

\* checkVerification line 190: status: { $in: ['verified', 'processed'] }.
OnchainStatus(st) == st \in {"verified", "processed"}

\* checkVerification lines 186-196: Event.findOne for an event of the invitee
\* with a transaction hash.
CV_FindEvent(p) ==
  LET q == procs[p]
      found == \E i \in EventIds : /\ events[i].userId = q.doc.inviteeUserId
                                   /\ events[i].txHash # "none"
                                   /\ OnchainStatus(events[i].status)
      h == [q EXCEPT !.doc.firstOnchainAction = found] IN
  /\ q.pc = "cv_event"
  /\ procs' = [procs EXCEPT ![p] = CV_Decide(CV_MinXP(h))]
  /\ UNCHANGED <<now, totalXP, ledger, events, quests, rules, calls, referral, firstLoginAt, referrals, xprules, auth>>

\* checkVerification line 211: save() of the status and the criteria.
CV_Save(p) ==
  LET q == procs[p] IN
  /\ q.pc = "cv_save"
  /\ referral' = [referral EXCEPT
       !.status = q.doc.status,
       !.firstLogin = referral.firstLogin \/ q.doc.firstLogin,
       !.firstOnchainAction = referral.firstOnchainAction \/ q.doc.firstOnchainAction,
       !.minXPReached = referral.minXPReached \/ q.doc.minXPReached]
  /\ referrals' = [referrals EXCEPT ![1] = referral']
  /\ procs' = [procs EXCEPT ![p] =
       [q EXCEPT !.pc = "done", !.res = [NoRes EXCEPT !.kind = "verified", !.success = TRUE]]]
  /\ UNCHANGED <<now, totalXP, ledger, events, quests, rules, calls, firstLoginAt, xprules, auth>>

\* A guard that lets every status through.
NotVerifiedNever(status) == FALSE

\* distributeRewards line 220: this.status !== 'verified'.
NotVerified(status) == status # "verified"

\* A caller loads the referral and calls distributeRewards on it: lines
\* 220-232, the guard on the copy's status and the call of addXP for the inviter.
DR_Load(p) ==
  /\ procs[p].pc = "idle"
  /\ calls < MaxRefCalls
  /\ calls' = calls + 1
  /\ procs' = [procs EXCEPT ![p] =
       LET q == [Idle EXCEPT !.op = "distributeRewards", !.doc = referral] IN
       IF NotVerified(referral.status)
         THEN OnThrow(q, <<"Referral must be verified before distributing rewards">>)
         ELSE [q EXCEPT !.pc = "ax_read", !.user = referral.inviterUserId,
                        !.delta = InviterXP, !.reason = "referral_reward_inviter"]]
  /\ UNCHANGED <<now, totalXP, ledger, events, quests, rules, referral, firstLoginAt, referrals, xprules, auth>>

\* distributeRewards lines 245-250: the rewards and status rewarded, saved.
DR_Save(p) ==
  LET q == procs[p] IN
  /\ q.pc = "dr_save"
  /\ referral' = [referral EXCEPT !.status = "rewarded", !.inviterXP = InviterXP,
                                  !.inviteeXP = InviteeXP]
  /\ referrals' = [referrals EXCEPT ![1] = referral']
  /\ procs' = [procs EXCEPT ![p] =
       [q EXCEPT !.pc = "done", !.res = [NoRes EXCEPT !.kind = "rewarded", !.success = TRUE]]]
  /\ UNCHANGED <<now, totalXP, ledger, events, quests, rules, calls, firstLoginAt, xprules, auth>>

\* A caller loads row i of the collection and calls reject on its copy: lines
\* 256-260, status rejected on the copy, and save() is called.  The first row
\* is the referral document of the invitee u2.
RJ_Load(p, i) ==
  /\ procs[p].pc = "idle"
  /\ i \in 1..Len(referrals)
  /\ calls < MaxRefCalls
  /\ calls' = calls + 1
  /\ procs' = [procs EXCEPT ![p] =
       [Idle EXCEPT !.op = "reject", !.pc = "rj_save", !.doc = referrals[i], !.row = i]]
  /\ UNCHANGED <<now, totalXP, ledger, events, quests, rules, referral, firstLoginAt, referrals, xprules, auth>>

\* reject lines 260-262: await this.save() writes status rejected when the
\* copy was not loaded rejected, and the method returns.
RJ_Save(p) ==
  LET q == procs[p] IN
  /\ q.pc = "rj_save"
  /\ referrals' = [referrals EXCEPT
       ![q.row].status = Saved(referrals[q.row].status, q.doc.status, "rejected")]
  /\ referral' = referrals'[1]
  /\ procs' = [procs EXCEPT ![p] =
       [q EXCEPT !.pc = "done", !.res = [NoRes EXCEPT !.kind = "rejected", !.success = TRUE]]]
  /\ UNCHANGED <<now, totalXP, ledger, events, quests, rules, calls, firstLoginAt, xprules, auth>>

\* The steps of the logins of the wallet's owner up to the first that
\* succeeds: requestNonce, then verifySignature with the nonce that is stored
\* and the owner's signature over its message.
LoginStep(p, walletAddress) ==
  \/ ~firstLoginAt[walletAddress] /\ RN_Find(p, walletAddress)
  \/ RN_Save(p)
  \/ /\ auth.nonce[walletAddress] # NoNonce
     /\ VS_Find(p, walletAddress, auth.nonce[walletAddress],
                OwnerSignature(walletAddress, auth.nonce[walletAddress]))
  \/ VS_Signature(p)
  \/ VS_Save(p)
  \/ AuthReturn(p)

\* The invitee logs in, while the other requests run, is rewarded for the
\* waitlist and submits a deposit or a withdrawal, one request at a time;
\* between them the referral is checked, paid and rejected by concurrent
\* requests.
ReferralInputs == {<<"deposit", DepositOk>>, <<"withdraw", WithdrawOk>>}
AllIdle == \A p \in Procs : procs[p].pc = "idle"
NoAwardRequest == \A p \in Procs : procs[p].op \notin {"processEvent", "joinWaitlist"}

NextReferral ==
  \/ \E p \in One : LoginStep(p, "u2")
  \/ \E p \in Pair :
       \/ AllIdle /\ FirstFree(p) /\ JoinWaitlistReward(p, "u2")
       \/ \E in \in ReferralInputs :
            AllIdle /\ FirstFree(p) /\ PE_Submit(p, "u2", in[1], in[2], calls + 1)
       \/ NoAwardRequest /\ FirstFree(p) /\ CV_Load(p)
       \/ NoAwardRequest /\ FirstFree(p) /\ DR_Load(p)
       \/ NoAwardRequest /\ FirstFree(p) /\ RJ_Load(p, 1)
       \/ RJ_Save(p)
       \/ CV_ReadInvitee(p)
       \/ CV_FindEvent(p)
       \/ CV_Save(p)
       \/ DR_Save(p)
       \/ Step(p)
       \/ QuestStep(p)

SpecReferral == Init /\ [][NextReferral]_vars

----------------------------------------------------------------------------
\* Referral.createReferral (models/Referral.js lines 91-117).

\* The rows of the referrals collection with the invitee.
ReferralsOf(invitee) == {i \in 1..Len(referrals) : referrals[i].inviteeUserId = invitee}

\* An index that accepts every row.
UniqueInviteeNever(invitee) == FALSE

\* Line 88, the unique index on inviteeUserId: an insert for an invitee that
\* has a row fails with the duplicate-key error, code 11000.
UniqueInvitee(invitee) == ReferralsOf(invitee) # {}

AlreadyReferred == "User has already been referred"

\* createReferral lines 94-97: findOne({inviteeUserId}); an existing row throws.
CR_Find(p, inviter, invitee) ==
  /\ procs[p].pc = "idle"
  /\ calls < MaxCalls
  /\ calls' = calls + 1
  /\ procs' = [procs EXCEPT ![p] =
       LET q == [Idle EXCEPT !.op = "createReferral", !.user = invitee,
                             !.pre = Cardinality(ReferralsOf(invitee)),
                             !.doc = [NewReferral EXCEPT !.inviterUserId = inviter,
                                                         !.inviteeUserId = invitee]] IN
       IF ReferralsOf(invitee) # {} THEN OnThrow(q, <<AlreadyReferred>>)
       ELSE [q EXCEPT !.pc = "cr_create"]]
  /\ UNCHANGED <<now, totalXP, ledger, events, quests, rules, referral, firstLoginAt,
                 referrals, xprules, auth>>

\* createReferral lines 99-116: this.create of the row; the duplicate-key error
\* of the index is caught and thrown as the same error as an existing row.
CR_Create(p) ==
  LET q == procs[p] IN
  /\ q.pc = "cr_create"
  /\ IF UniqueInvitee(q.doc.inviteeUserId)
       THEN /\ referrals' = referrals
            /\ procs' = [procs EXCEPT ![p] = OnThrow(q, <<AlreadyReferred>>)]
       ELSE /\ referrals' = Append(referrals, q.doc)
            /\ procs' = [procs EXCEPT ![p] =
                 [q EXCEPT !.pc = "done", !.wrote = 1,
                           !.res = [NoRes EXCEPT !.kind = "created", !.success = TRUE]]]
  /\ UNCHANGED <<now, totalXP, ledger, events, quests, rules, calls, referral, firstLoginAt,
                 xprules, auth>>

\* Concurrent createReferral calls for every pair of users, and rejections.
NextCreate ==
  \/ \E p \in Pair :
       \/ \E inviter \in Users, invitee \in Users : CR_Find(p, inviter, invitee)
       \/ CR_Create(p)
       \/ \E i \in 1..MaxCalls : RJ_Load(p, i)
       \/ RJ_Save(p)
       \/ Return(p)

SpecCreate == Init /\ [][NextCreate]_vars

----------------------------------------------------------------------------
\* Failures of the storage layer: an awaited call of a model rejects.

StorageError == "storage error"

\* A catch that throws the error on.
QuestCatchThrows(q) == OnThrow(q, <<StorageError>>)

\* updateQuestProgress lines 252-259, the catch: the error is logged and not
\* thrown; processEvent goes on to its success result, lines 108-120.
QuestCatch(q) == Succeeded(q)

\* updateQuestProgress fails: Quest.find, getOrCreate or updateProgress
\* rejects, and writes nothing.
PE_QuestFails(p) ==
  LET q == procs[p] IN
  /\ q.pc \in {"quest", "getOrCreate", "updateProgress"}
  /\ procs' = [procs EXCEPT ![p] = QuestCatch([q EXCEPT !.fault = "quest"])]
  /\ UNCHANGED <<now, totalXP, ledger, events, quests, rules, calls, referral, firstLoginAt,
                 referrals, xprules, auth>>

\* addXP line 69: User.findById rejects.
AddXP_ReadFails(p) ==
  LET q == procs[p] IN
  /\ q.pc = "ax_read"
  /\ procs' = [procs EXCEPT ![p] = OnThrow([q EXCEPT !.fault = "read"], <<StorageError>>)]
  /\ UNCHANGED <<now, totalXP, ledger, events, quests, rules, calls, referral, firstLoginAt,
                 referrals, xprules, auth>>

\* addXP line 82: XPLedger.create rejects; no entry is inserted.
AddXP_CreateFails(p) ==
  LET q == procs[p] IN
  /\ q.pc = "ax_create"
  /\ procs' = [procs EXCEPT ![p] = OnThrow([q EXCEPT !.fault = "create"], <<StorageError>>)]
  /\ UNCHANGED <<now, totalXP, ledger, events, quests, rules, calls, referral, firstLoginAt,
                 referrals, xprules, auth>>

\* addXP line 93: User.findByIdAndUpdate rejects; the entry of line 82 stays.
AddXP_WriteFails(p) ==
  LET q == procs[p] IN
  /\ q.pc = "ax_write"
  /\ procs' = [procs EXCEPT ![p] = OnThrow([q EXCEPT !.fault = "write"], <<StorageError>>)]
  /\ UNCHANGED <<now, totalXP, ledger, events, quests, rules, calls, referral, firstLoginAt,
                 referrals, xprules, auth>>

\* Submissions with and without a matching quest, and a direct caller of addXP.
FaultInputs == {<<"deposit", DepositOk>>, <<"claim_faucet", FaucetTx>>}

\* One request at a time, any of whose storage calls may fail.
NextFault ==
  \E p \in One :
    \/ \E in \in FaultInputs : PE_Submit(p, "u1", in[1], in[2], calls + 1)
    \/ JoinWaitlistReward(p, "u1")
    \/ PE_QuestFails(p)
    \/ AddXP_ReadFails(p)
    \/ AddXP_CreateFails(p)
    \/ AddXP_WriteFails(p)
    \/ Step(p)
    \/ QuestStep(p)

SpecFault == Init /\ [][NextFault]_vars

\* distributeRewards line 250: this.save() rejects; the two entries of lines
\* 227-241 stay.
DR_SaveFails(p) ==
  LET q == procs[p] IN
  /\ q.pc = "dr_save"
  /\ procs' = [procs EXCEPT ![p] = OnThrow([q EXCEPT !.fault = "save"], <<StorageError>>)]
  /\ UNCHANGED <<now, totalXP, ledger, events, quests, rules, calls, referral, firstLoginAt,
                 referrals, xprules, auth>>

\* The invitee's deposits, one that is awarded, one below the minimum amount,
\* and a withdrawal.
PayoutInputs ==
  {<<"deposit", DepositOk>>, <<"deposit", DepositSmall>>, <<"withdraw", WithdrawOk>>}

\* The invitee logs in and deposits, the referral is checked and paid, one
\* request at a time, any of whose storage calls may fail.
NextPayout ==
  \/ \E p \in One : LoginStep(p, "u2")
  \/ \E p \in One :
       \/ \E in \in PayoutInputs : PE_Submit(p, "u2", in[1], in[2], calls + 1)
       \/ CV_Load(p)
       \/ CV_ReadInvitee(p)
       \/ CV_FindEvent(p)
       \/ CV_Save(p)
       \/ DR_Load(p)
       \/ DR_Save(p)
       \/ DR_SaveFails(p)
       \/ AddXP_ReadFails(p)
       \/ AddXP_CreateFails(p)
       \/ AddXP_WriteFails(p)
       \/ Step(p)
       \/ QuestStep(p)

SpecPayout == Init /\ [][NextPayout]_vars

----------------------------------------------------------------------------
\* The quest fan-out for quests of every cadence.

\* A supply whose transaction went to the strategy contract.
SupplyPlain == [DepositOk EXCEPT !.txHash = "txStrategy", !.tokenSymbol = "none"]

\* Awards with a daily quest, with a one-time and a weekly quest, and with
\* none, for two users, over several days.
QuestInputs ==
  {<<"u1", "deposit", DepositOk>>, <<"u2", "deposit", DepositOk>>,
   <<"u1", "supply", SupplyPlain>>, <<"u1", "claim_faucet", NoMeta>>}

NextQuest ==
  \/ Tick
  \/ \E p \in One :
       \/ \E in \in QuestInputs : PE_Submit(p, in[1], in[2], in[3], calls + 1)
       \/ Step(p)
       \/ QuestStep(p)

SpecQuest == Init /\ [][NextQuest]_vars

----------------------------------------------------------------------------
\* The administrator's rule handlers (controllers/admin.controller.js).

\* The schema's setters of actionType, trim and lowercase (LeaderboardRow.js
\* lines 269-270), which Mongoose applies to documents and to query filters.
NormalizeActionType(actionType) ==
  CASE actionType \in {"Swap", "swap "} -> "swap"
    [] actionType = "Deposit" -> "deposit"
    [] OTHER -> actionType

\* An index that accepts every write.
UniqueActionTypeNever(actionType, id) == FALSE

\* LeaderboardRow.js line 267, unique: true on actionType: a write that gives
\* a rule the action type of another rule fails with the duplicate-key error.
UniqueActionType(actionType, id) == RulesWith(actionType) \ {id} # {}

\* createXPRule lines 39-67: the body is read, actionType is required, and
\* XPRule.findOne({actionType}) answers 400 for an existing rule.
XR_Find(p, actionType, xpAmount) ==
  /\ procs[p].pc = "idle"
  /\ calls < MaxCalls
  /\ calls' = calls + 1
  /\ procs' = [procs EXCEPT ![p] =
       LET q == [Idle EXCEPT !.op = "createXPRule", !.type = actionType,
                             !.delta = xpAmount,
                             !.pre = Cardinality(RulesWith(NormalizeActionType(actionType)))] IN
       IF actionType = ""
         THEN [q EXCEPT !.pc = "done",
                        !.res = [NoRes EXCEPT !.kind = "badRequest",
                                   !.message = Msg("actionType and xpAmount are required", 0)]]
       ELSE IF RulesWith(NormalizeActionType(actionType)) # {}
         THEN [q EXCEPT !.pc = "done",
                        !.res = [NoRes EXCEPT !.kind = "badRequest",
                                   !.message = Msg("XP rule for action type already exists", 0)]]
       ELSE [q EXCEPT !.pc = "xr_create"]]
  /\ UNCHANGED <<now, totalXP, ledger, events, quests, rules, referral, firstLoginAt,
                 referrals, xprules, auth>>

\* createXPRule lines 69-107: XPRule.create of the rule; an error, the index's
\* duplicate-key error included, is answered with 500.
XR_Create(p) ==
  LET q == procs[p]
      t == NormalizeActionType(q.type)
      row == [NoRule EXCEPT !.actionType = t, !.xpAmount = q.delta, !.isActive = TRUE] IN
  /\ q.pc = "xr_create"
  /\ IF UniqueActionType(t, 0)
       THEN /\ xprules' = xprules
            /\ procs' = [procs EXCEPT ![p] =
                 [q EXCEPT !.pc = "done",
                           !.res = [NoRes EXCEPT !.kind = "serverError",
                                      !.message = Msg("Failed to create XP rule", 0)]]]
       ELSE /\ xprules' = Append(xprules, row)
            /\ procs' = [procs EXCEPT ![p] =
                 [q EXCEPT !.pc = "done", !.wrote = 1,
                           !.res = [NoRes EXCEPT !.kind = "created", !.success = TRUE]]]
  /\ rules' = RulesOf(xprules')
  /\ UNCHANGED <<now, totalXP, ledger, events, quests, calls, referral, firstLoginAt,
                 referrals, auth>>

\* A handler that leaves the body as it came.
DeleteActionTypeSkipped(updates) == updates

\* updateXPRule lines 118-119: delete updates.actionType.
DeleteActionType(updates) == [updates EXCEPT !.actionType = "none"]

\* $set of the fields of the body on a rule.
SetFields(row, updates) ==
  [row EXCEPT !.actionType = IF updates.actionType = "none" THEN row.actionType
                             ELSE NormalizeActionType(updates.actionType),
              !.xpAmount = updates.xpAmount,
              !.isActive = updates.isActive]

\* updateXPRule lines 113-160: findByIdAndUpdate(id, {$set: updates}); an
\* unknown id is answered 404, an error of the update 500.
UpdateXPRule(id, body) ==
  LET updates == DeleteActionType(body) IN
  /\ calls < MaxCalls
  /\ calls' = calls + 1
  /\ xprules' =
       IF id \notin 1..Len(xprules) THEN xprules
       ELSE IF UniqueActionType(SetFields(xprules[id], updates).actionType, id) THEN xprules
       ELSE [xprules EXCEPT ![id] = SetFields(xprules[id], updates)]
  /\ rules' = RulesOf(xprules')
  /\ UNCHANGED <<now, totalXP, ledger, events, quests, procs, referral, firstLoginAt,
                 referrals, auth>>

\* deleteXPRule lines 166-172: findByIdAndUpdate(id, {$set: {isActive: false}}).
DeleteXPRule(id) ==
  /\ calls < MaxCalls
  /\ calls' = calls + 1
  /\ id \in 1..Len(xprules)
  /\ xprules[id].isActive
  /\ xprules' = [xprules EXCEPT ![id].isActive = FALSE]
  /\ rules' = RulesOf(xprules')
  /\ UNCHANGED <<now, totalXP, ledger, events, quests, procs, referral, firstLoginAt,
                 referrals, auth>>

\* The bodies the administrator sends: new action types in several spellings,
\* a seeded one and none; updates with and without an action type.
CreateBodies == {"swap", "Swap", "swap ", "Deposit", ""}
UpdateBodies ==
  {[actionType |-> "claim_faucet", xpAmount |-> 5, isActive |-> TRUE],
   [actionType |-> "swap", xpAmount |-> 5, isActive |-> TRUE],
   [actionType |-> "none", xpAmount |-> 7, isActive |-> FALSE]}

\* The ids the administrator names: the first rule, the newest, and none.
RuleIds == {1, Len(xprules), Len(xprules) + 1}

NextAdmin ==
  \/ \E id \in RuleIds, body \in UpdateBodies : UpdateXPRule(id, body)
  \/ \E id \in RuleIds : DeleteXPRule(id)
  \/ \E p \in Pair :
       \/ \E actionType \in CreateBodies : XR_Find(p, actionType, 10)
       \/ XR_Create(p)
       \/ Return(p)

SpecAdmin == Init /\ [][NextAdmin]_vars

----------------------------------------------------------------------------
\* Concurrent verifySignature requests presenting a nonce and a signature,
\* while nonces are requested and time passes.
NextAuth ==
  \/ Tick
  \/ \E p \in Pair :
       \/ RN_Find(p, Wallet)
       \/ RN_Save(p)
       \/ \E nonce \in 1..MaxNonces :
            \E signature \in Signatures(nonce) : VS_Find(p, Wallet, nonce, signature)
       \/ \E w \in Wallets \ {Wallet} :
            VS_Find(p, w, 1, [signer |-> "mallory", nonce |-> 1])
       \/ VS_Signature(p)
       \/ VS_Save(p)
       \/ AuthReturn(p)

SpecAuth == Init /\ [][NextAuth]_vars

----------------------------------------------------------------------------
\* The save of a new user (models/User.js: userSchema.pre('save') and the
\* unique index on referralCode).

\* generateReferralCode: the codes NUV-XXXXXX it can return.
Codes == 1..NCodes

\* The unique index on referralCode: the insert of a document with the code
\* is refused while another document has it.
CodeInUse(code) == code \in auth.codes

\* User.create for a wallet without a waitlist entry: the document is new and
\* has no referral code, the hook enters its loop (lines 172-177).
SaveNew(p) ==
  /\ auth.saves[p].pc = "idle"
  /\ auth' = [auth EXCEPT !.saves[p] = [SaveIdle EXCEPT !.pc = "generate"]]
  /\ UNCHANGED <<now, totalXP, ledger, events, quests, rules, procs, calls, referral,
                 firstLoginAt, referrals, xprules>>

\* User.create with the referral code of the wallet's waitlist entry
\* (auth.controller lines 47-62): the hook is skipped, the document inserted.
SaveWithCode(p, code) ==
  /\ auth.saves[p].pc = "idle"
  /\ auth' = [auth EXCEPT !.saves[p] = [SaveIdle EXCEPT !.pc = "insert", !.code = code]]
  /\ UNCHANGED <<now, totalXP, ledger, events, quests, rules, procs, calls, referral,
                 firstLoginAt, referrals, xprules>>

\* One turn of the hook's loop, lines 177-183: a code is generated and looked
\* up; the loop ends when no user has it, and goes round again when one has.
TryCode(p, code) ==
  LET q == auth.saves[p] IN
  /\ q.pc = "generate"
  /\ auth' = [auth EXCEPT !.saves[p] =
       IF CodeInUse(code) THEN [q EXCEPT !.code = code]
       ELSE [q EXCEPT !.pc = "insert", !.code = code]]
  /\ UNCHANGED <<now, totalXP, ledger, events, quests, rules, procs, calls, referral,
                 firstLoginAt, referrals, xprules>>

\* The insert of the document after the hook: refused by the unique index
\* when the code was taken in the meantime.
InsertUser(p) ==
  LET q == auth.saves[p] IN
  /\ q.pc = "insert"
  /\ auth' = [auth EXCEPT
       !.codes = IF CodeInUse(q.code) THEN auth.codes ELSE auth.codes \cup {q.code},
       !.saves[p] = [q EXCEPT !.pc = "done",
                              !.res = IF CodeInUse(q.code) THEN DuplicateKeyError
                                      ELSE "saved"]]
  /\ UNCHANGED <<now, totalXP, ledger, events, quests, rules, procs, calls, referral,
                 firstLoginAt, referrals, xprules>>

\* The save has answered; its slot is free again.
SaveReturn(p) ==
  /\ auth.saves[p].pc = "done"
  /\ auth' = [auth EXCEPT !.saves[p] = SaveIdle]
  /\ UNCHANGED <<now, totalXP, ledger, events, quests, rules, procs, calls, referral,
                 firstLoginAt, referrals, xprules>>

\* A turn of the loop with a code that no user has.
TryFreeCode(p) == \E code \in Codes : ~CodeInUse(code) /\ TryCode(p, code)

\* The steps of a save after its first.
SaveStep(p) ==
  \/ \E code \in Codes : TryCode(p, code)
  \/ InsertUser(p)
  \/ SaveReturn(p)

\* Concurrent saves of new users, with and without a code of their own.
NextSave ==
  \E p \in Pair :
    \/ SaveNew(p)
    \/ \E code \in Codes : SaveWithCode(p, code)
    \/ SaveStep(p)

SpecSave == Init /\ [][NextSave]_vars

\* Every save in flight keeps running, and the generator does not avoid the
\* codes that are free for ever.
SpecSaveFair ==
  /\ SpecSave
  /\ \A p \in Pair : WF_vars(SaveStep(p)) /\ SF_vars(TryFreeCode(p))

----------------------------------------------------------------------------
\* The ledger claims.

\* No addXP call is between its read of the balance and its write of it.
InAddXP(p) == procs[p].pc \in {"ax_read", "ax_create", "ax_write"}
Quiescent == \A p \in Procs : ~InAddXP(p)

\* The number of entries of a user.
\* The entries of one user, oldest first.
EntriesInOrder(u) == SelectSeq(ledger, LAMBDA e : e.userId = u)
EntryCount(u) == Len(EntriesInOrder(u))

\* C1 (as claimed): once N awards of +1 to one user have all returned, that
\* user's totalXP is exactly N above the starting balance of 0: no update is lost.
C1_NoLostUpdate ==
  \A u \in Users :
    (Quiescent /\ \A i \in 1..EntryCount(u) : EntriesInOrder(u)[i].deltaXP = 1)
      => totalXP[u] = EntryCount(u)

\* C2 (as claimed): whenever no award is in flight, every user's cached totalXP
\* equals the sum of deltaXP over that user's ledger entries.
C2_LedgerConsistency ==
  Quiescent => \A u \in Users : totalXP[u] = SumDelta(ledger, u)

\* C3 (as claimed): each entry's balanceAfter is the previous entry's
\* balanceAfter of the same user (0 for the first) plus its own deltaXP.
C3_BalanceChain ==
  \A u \in Users : \A i \in 1..EntryCount(u) :
    EntriesInOrder(u)[i].balanceAfter =
      (IF i = 1 THEN 0 ELSE EntriesInOrder(u)[i - 1].balanceAfter) + EntriesInOrder(u)[i].deltaXP

\* C5 (as claimed): an addXP call whose resulting balance would be negative
\* throws 'Insufficient XP balance' having appended nothing, no call gets past
\* the guard with a negative result, no entry has balanceAfter < 0 and no user
\* has totalXP < 0, whatever operations write the balance.
C5_NoNegativeBalance ==
  /\ \A i \in 1..Len(ledger) : ledger[i].balanceAfter >= 0
  /\ \A u \in Users : totalXP[u] >= 0
  /\ \A p \in Procs :
       LET q == procs[p] IN
       /\ (q.pc \in {"ax_create", "ax_write"}) => q.bal + q.delta >= 0
       /\ (q.pc = "threw" /\ q.res.message.text = "Insufficient XP balance")
            => (q.wrote = 0 /\ q.bal + q.delta < 0)

----------------------------------------------------------------------------
\* The pipeline claims.

\* The entries appended for an event.
EntriesOf(i) == {n \in 1..Len(ledger) : ledger[n].eventId = i}

\* The order of the checks of processEvent, and the reasons each can give.
CheckOrder == <<"validate", "cooldown", "limit", "verify">>
ReasonsOf(check) ==
  CASE check = "validate" ->
         {"No active rule found for this action", "Invalid chain ID", "Invalid protocol",
          "Minimum amount is"}
    [] check = "cooldown" -> {"Cooldown active. Try again in"}
    [] check = "limit" -> {"Daily limit reached"}
    [] check = "verify" ->
         {"No provider configured for chain ID", "timeout",
          "Transaction not found or not confirmed",
          "Transaction failed", "Transaction not sent to expected contract",
          "Transaction not sent to a valid Nuvia contract"}

IsPrefix(a, b) == Len(a) <= Len(b) /\ \A i \in 1..Len(a) : a[i] = b[i]

\* The request ended when the named check failed.
RejectedBy(q, check) ==
  q.pc = "done" /\ q.res.kind = "fail" /\ q.ran # <<>> /\ q.ran[Len(q.ran)] = check

\* The named check failed: the request is about to mark its event failed, or
\* has done so and answered.
FailedAt(q, check) ==
  /\ q.ran # <<>> /\ q.ran[Len(q.ran)] = check
  /\ q.pc = "markFailed" \/ (q.pc = "done" /\ q.res.kind = "fail")

\* The result of the request: the one it returned, or the failure result it
\* returns once its event is marked failed.
Answer(q) == IF q.pc = "markFailed" THEN q.rej ELSE q.res

\* The event of a request that answered with a failure is failed, for the
\* reasons of the named check.
EventFailedFor(q, check) ==
  q.pc = "done" => /\ events[q.evt].status = "failed"
                   /\ events[q.evt].reason.text \in ReasonsOf(check)

\* The duplicate outcome of processEvent.
DuplicateOutcome(q) ==
  /\ q.pc = "done" /\ q.res.kind = "duplicate"
  /\ ~q.res.success /\ q.res.xpAwarded = 0
  /\ q.res.message.text = "Event already processed (duplicate)"

\* C4: for every (user, dedup key) there is one event; whichever of the calls
\* with that key did not create it returns the duplicate outcome having appended
\* nothing; the event gets at most one ledger entry, and exactly one once it is
\* processed.
C4_IdempotentSubmission ==
  /\ \A i, j \in EventIds :
       (events[i].userId = events[j].userId /\ events[i].dedupKey = events[j].dedupKey)
         => i = j
  /\ \A i \in EventIds :
       /\ Cardinality(EntriesOf(i)) <= 1
       /\ events[i].status = "processed" => Cardinality(EntriesOf(i)) = 1
  /\ \A p \in Procs :
       LET q == procs[p] IN
       (q.op = "processEvent" /\ q.pc # "idle") =>
         IF q.evt = 0 THEN DuplicateOutcome(q) /\ q.wrote = 0 /\ DuplicateKey(q.user, q.key)
         ELSE /\ events[q.evt].userId = q.user /\ events[q.evt].dedupKey = q.key
              /\ \A r \in Procs : procs[r].evt = q.evt => r = p

\* C4's case: of two calls with one (user, key) the first was awarded its XP
\* once and the other got the duplicate outcome.
C4_Witness ==
  \E p, r \in Procs :
    /\ procs[p].user = procs[r].user /\ procs[p].key = procs[r].key
    /\ procs[p].pc = "done" /\ procs[p].res.kind = "ok" /\ procs[p].res.xpAwarded = 100
    /\ Cardinality(EntriesOf(procs[p].evt)) = 1
    /\ totalXP[procs[p].user] = 100
    /\ DuplicateOutcome(procs[r])

\* C6: a request rejected by a check leaves its event failed with a reason of
\* that check, has run no check after it, and has appended no ledger entry,
\* written no totalXP and advanced no quest; a failed event has no ledger entry
\* and its request has ended.
C6_FailureHalts ==
  /\ \A i \in EventIds : events[i].status = "failed" => EntriesOf(i) = {}
  /\ \A p \in Procs :
       LET q == procs[p] IN
       /\ (q.evt # 0 /\ events[q.evt].status = "failed")
            => (q.pc = "done" /\ q.res.kind = "fail")
       /\ (q.pc = "done" /\ q.res.kind = "fail") =>
            /\ events[q.evt].status = "failed"
            /\ q.ran # <<>> /\ IsPrefix(q.ran, CheckOrder)
            /\ events[q.evt].reason.text \in ReasonsOf(q.ran[Len(q.ran)])
            /\ q.wrote = 0 /\ q.xpw = 0 /\ q.qadv = 0
            /\ ~q.res.success /\ q.res.xpAwarded = 0

\* C6's case: a request rejected by the on-chain verification, the last check,
\* while another request's award stands.
C6_Witness ==
  \E p \in Procs :
    /\ RejectedBy(procs[p], "verify")
    /\ procs[p].ran = CheckOrder
    /\ ledger # <<>>

\* C7 (as claimed): a call that returned the duplicate outcome created no event, changed no
\* event's status, appended no entry, wrote no totalXP and advanced no quest,
\* and an event with its (user, dedup key) exists.
C7_DuplicateCostsNothing ==
  \A p \in Procs :
    LET q == procs[p] IN
    q.res.kind = "duplicate" =>
      /\ q.evt = 0 /\ q.marks = 0 /\ q.wrote = 0 /\ q.xpw = 0 /\ q.qadv = 0
      /\ DuplicateKey(q.user, q.key)

\* C8: at a cooldown check of a rule with cooldown C > 0, with T the time of the
\* user's latest event of the action type that passed every check: before T + C
\* the submission is rejected, its event failed, with nextAvailableAt = T + C;
\* after T + C, or with no such event, the cooldown check does not reject it.
\* The time of the submission is the time at which its check reads the clock.
C8_Cooldown ==
  \A p \in Procs :
    LET q == procs[p]
        C == q.rule.cooldownMinutes
        T == q.cdLast IN
    (q.cdAt >= 0 /\ C > 0) =>
      /\ (T >= 0 /\ q.cdAt < T + C) =>
           /\ FailedAt(q, "cooldown")
           /\ q.rej.nextAvailableAt = T + C /\ q.wrote = 0
           /\ q.pc = "done" => /\ q.res.nextAvailableAt = T + C
                                /\ events[q.evt].status = "failed"
      /\ (T < 0 \/ q.cdAt > T + C) => ~FailedAt(q, "cooldown")

\* C8's case: a submission one tick after the last award is rejected with the
\* end of the cooldown, counted from that award.
C8_Witness ==
  \E p \in Procs :
    /\ RejectedBy(procs[p], "cooldown")
    /\ procs[p].cdAt > procs[p].cdLast
    /\ events[procs[p].cdBy].status = "processed"
    /\ procs[p].res.nextAvailableAt = procs[p].cdLast + CooldownTicks

\* C9: for a rule with dailyLimit L >= 1, a submission made when the user has L
\* processed events of the action type that day, and checked against the limit
\* on that day, is never awarded, and the limit check rejects it if it gets
\* there; a limit check on a day on which the user has L processed events
\* rejects; a submission that is the user's first of the day of its limit check
\* is not rejected by it.  The day of a limit check is the day on which it
\* reads the clock.
C9_DailyLimit ==
  \A p \in Procs :
    LET q == procs[p]
        L == q.rule.dailyLimit IN
    /\ (q.evt # 0 /\ q.type \in DOMAIN rules /\ rules[q.type].dailyLimit >= 1
        /\ q.pre >= rules[q.type].dailyLimit
        /\ (q.limAt >= 0 => q.limAt \div DayLen = events[q.evt].occurredAt \div DayLen))
         => /\ q.wrote = 0
            /\ q.pc \in {"rule", "validate", "cooldown", "limit", "markFailed", "done"}
            /\ q.pc = "done" => (q.res.kind = "fail" /\ events[q.evt].status = "failed")
    /\ (q.limAt >= 0 /\ L >= 1) =>
         /\ q.limN >= L => /\ FailedAt(q, "limit") /\ q.wrote = 0
                            /\ q.pc = "done" => events[q.evt].status = "failed"
         /\ q.limOthers = 0 => ~FailedAt(q, "limit")

\* C9's case: the day after a submission was rejected for the daily limit, the
\* same user's first submission of the day has passed the limit check.
C9_Witness ==
  \E p \in Procs :
    LET q == procs[p] IN
    /\ q.limAt >= DayLen /\ q.limOthers = 0 /\ q.wrote = 1
    /\ \E i \in EventIds :
         /\ events[i].userId = q.user /\ events[i].type = q.type
         /\ events[i].status = "failed" /\ events[i].reason.text = "Daily limit reached"
         /\ events[i].occurredAt < StartOfDay(q.limAt)

\* The pipeline of the event stopped before a ledger entry was appended for it.
NeverAwarded(i) ==
  /\ EntriesOf(i) = {}
  /\ \A p \in Procs : procs[p].evt = i => procs[p].pc \in {"done", "threw"}

\* C10 (as claimed): no submission is rejected for cooldown or for the daily
\* limit on account of an event for which XP was never awarded.
C10_OnlyAwardedEventsCount ==
  \A p \in Procs :
    LET q == procs[p] IN
    /\ RejectedBy(q, "cooldown") => ~NeverAwarded(q.cdBy)
    /\ RejectedBy(q, "limit") => \A i \in q.limBy : ~NeverAwarded(i)

\* C11: a submission for whose action type the lookup finds no active rule runs
\* no check, appends no ledger entry and writes no totalXP; when it has
\* answered, its event is processed, without a reason, and the result is
\* success with xpAwarded 0.
C11_NoRuleProcessed ==
  \A p \in Procs :
    LET q == procs[p] IN
    (q.op = "processEvent" /\ q.hadRule = "no") =>
      /\ q.ran = <<>> /\ q.wrote = 0 /\ q.xpw = 0 /\ q.qadv = 0
      /\ EntriesOf(q.evt) = {}
      /\ q.pc \in {"norule", "done"}
      /\ q.pc = "norule" => events[q.evt].status = "recorded"
      /\ q.pc = "done" =>
           /\ events[q.evt].status = "processed" /\ events[q.evt].reason = NoMsg
           /\ q.res.success /\ q.res.xpAwarded = 0

\* C11's case: a submission without a rule has answered, after another
\* submission was awarded.
C11_Witness ==
  \E p \in Procs :
    /\ procs[p].hadRule = "no" /\ procs[p].pc = "done"
    /\ events[procs[p].evt].status = "processed"
    /\ ledger # <<>> /\ totalXP[procs[p].user] > 0

\* C12 (as claimed): every policy rejection, the absence of a rule for the
\* action type included, leaves the submitted event failed with a reason: a
\* submission that has answered, and for which the lookup found no rule or
\* which validateEvent, the cooldown check or the daily-limit check rejected,
\* has a failed event with a reason.
C12_PolicyRejectionsFail ==
  \A p \in Procs :
    LET q == procs[p] IN
    (q.op = "processEvent" /\ q.pc = "done" /\ q.evt # 0
     /\ \/ q.hadRule = "no"
        \/ \E check \in {"validate", "cooldown", "limit"} : RejectedBy(q, check)) =>
      /\ events[q.evt].status = "failed"
      /\ events[q.evt].reason.text # ""

\* C12: a submission rejected by validateEvent (rule not active, chain,
\* protocol or amount), by the cooldown check or by the daily-limit check
\* leaves its event failed, with the reason of the rejection, which is the
\* message returned; every failed event has a reason; and a submission for
\* whose action type the lookup found no rule is not rejected: it is answered
\* with success and its event is processed, without a reason.
C12_RejectionsFail ==
  /\ \A i \in EventIds : events[i].status = "failed" => events[i].reason.text # ""
  /\ \A p \in Procs :
       LET q == procs[p] IN
       /\ (q.pc = "done" /\ q.res.kind = "fail"
           /\ q.ran # <<>> /\ q.ran[Len(q.ran)] \in {"validate", "cooldown", "limit"}) =>
            /\ events[q.evt].status = "failed"
            /\ events[q.evt].reason = q.res.message
            /\ events[q.evt].reason.text \in ReasonsOf(q.ran[Len(q.ran)])
       /\ (q.op = "processEvent" /\ q.pc = "done" /\ q.evt # 0 /\ q.hadRule = "no") =>
            /\ q.res.success /\ q.res.kind = "ok"
            /\ events[q.evt].status = "processed"
            /\ events[q.evt].reason = NoMsg

\* C12's case: a submission for an action type without a rule has answered,
\* after events were rejected for the protocol and for the amount.
C12_Witness ==
  /\ \E p \in Procs :
       /\ procs[p].op = "processEvent" /\ procs[p].pc = "done"
       /\ procs[p].hadRule = "no" /\ procs[p].type = "swap"
       /\ events[procs[p].evt].status = "processed"
  /\ \E j, k \in EventIds :
       /\ events[j].status = "failed" /\ events[j].reason.text = "Invalid protocol"
       /\ events[k].status = "failed"
       /\ events[k].reason.text = "Minimum amount is" /\ events[k].reason.n = 10

\* The addresses of the registry's contracts.
KnownContracts == {Contracts[k] : k \in DOMAIN Contracts}

\* C13 (as claimed): the verifier says verified only for a transaction that
\* succeeded and went to one of the registry's contracts; a submission whose
\* transaction went anywhere else, or nowhere, is never awarded and ends with
\* its event failed.
C13_WrongDestinationRejected ==
  \A p \in Procs :
    LET q == procs[p] IN
    (q.ver # "none" /\ q.meta.txHash \in DOMAIN Receipts) =>
      LET r == Receipts[q.meta.txHash] IN
      /\ q.ver = "yes" => (r.status = 1 /\ r.to \in KnownContracts)
      /\ r.to \notin KnownContracts =>
           /\ q.wrote = 0
           /\ FailedAt(q, "verify") /\ EventFailedFor(q, "verify")

\* The contract the registry holds for an action type and a token symbol.
RegistryContract(actionType, symbol) ==
  CASE actionType = "claim_faucet" -> Contracts.faucet
    [] actionType = "deposit" /\ symbol = "USDC" -> Contracts.vaultUSDC
    [] actionType = "supply" /\ symbol = "USDC" -> Contracts.strategyUSDC
    [] OTHER -> "none"

\* C14 (as claimed): for a submission with txHash, chainId and token symbol and
\* no contract address of its own, the verifier is given the registry's
\* contract for the submission's action type and the symbol.
C14_ExpectedContractByAction ==
  \A p \in Procs :
    LET q == procs[p] IN
    (/\ q.exp # "unset" /\ q.meta.tokenSymbol # "none" /\ q.meta.contractAddress = "none"
     /\ q.type \in {"claim_faucet", "deposit", "supply"})
      => q.exp = RegistryContract(q.type, q.meta.tokenSymbol)

\* C15: for a submission that carries a transaction hash and a chain id, the
\* award starts and the ledger entry is appended only after the verifier said
\* verified and the event was marked verified; when the verifier says not
\* verified the request ends, its event failed with the verifier's reason, and
\* no entry is appended.
C15_VerifiedBeforeAward ==
  \A p \in Procs :
    LET q == procs[p] IN
    (q.op = "processEvent" /\ q.meta.txHash # "none" /\ q.meta.chainId # 0) =>
      /\ q.pc \in {"ax_read", "ax_create", "ax_write"} =>
           (q.ver = "yes" /\ events[q.evt].status = "verified")
      /\ q.wrote = 1 =>
           (q.ver = "yes" /\ events[q.evt].status \in {"verified", "processed"})
      /\ q.ver = "no" =>
           /\ FailedAt(q, "verify") /\ EventFailedFor(q, "verify")
           /\ Answer(q).detail \in ReasonsOf("verify")
           /\ q.pc = "done" => q.res.detail = events[q.evt].reason.text
           /\ q.wrote = 0 /\ EntriesOf(q.evt) = {}

\* C15's case: a verified submission has been awarded and processed, and an
\* earlier one failed for the verifier's reason.
C15_Witness ==
  /\ \E p \in Procs :
       /\ procs[p].ver = "yes" /\ procs[p].wrote = 1 /\ procs[p].pc = "done"
       /\ events[procs[p].evt].status = "processed"
       /\ Cardinality(EntriesOf(procs[p].evt)) = 1
  /\ \E i \in EventIds :
       events[i].status = "failed" /\ events[i].reason.text = "Transaction failed"

\* The request has been through validateEvent and was not rejected by it.
PassedValidate(q) == q.ran # <<>> /\ q.ran[1] = "validate" /\ ~FailedAt(q, "validate")

\* C16 (as claimed): under an active rule with a non-empty validChains list a
\* submission passes validateEvent only if its chain id is in the list, and
\* likewise for validProtocols and its protocol; every other submission is
\* rejected by validateEvent with a reason.
C16_AllowLists ==
  \A p \in Procs :
    LET q == procs[p] IN
    (q.ran # <<>> /\ q.type \in DOMAIN rules /\ rules[q.type].isActive) =>
      LET rule == rules[q.type]
          chainOk == rule.validChains # {} => q.meta.chainId \in rule.validChains
          protocolOk == rule.validProtocols # {} => q.meta.protocol \in rule.validProtocols IN
      /\ PassedValidate(q) => (chainOk /\ protocolOk)
      /\ ~(chainOk /\ protocolOk) =>
           (FailedAt(q, "validate") /\ Answer(q).message.text # "")

\* C17 (as claimed): under an active rule with minAmount M a submission passes
\* validateEvent only if its amount is at least M; one whose amount is below M
\* is rejected with 'Minimum amount is M', success false and xpAwarded 0, and
\* gets no ledger entry.
C17_MinimumAmount ==
  \A p \in Procs :
    LET q == procs[p] IN
    (/\ q.ran # <<>> /\ q.type \in DOMAIN rules /\ rules[q.type].isActive
     /\ rules[q.type].minAmount # 0) =>
      LET M == rules[q.type].minAmount IN
      /\ PassedValidate(q) => q.meta.amount >= M
      /\ (q.meta.amount < M /\ q.meta.chainId \in rules[q.type].validChains) =>
           /\ FailedAt(q, "validate")
           /\ Answer(q).message = Msg("Minimum amount is", M)
           /\ ~Answer(q).success /\ Answer(q).xpAwarded = 0
           /\ q.wrote = 0 /\ EntriesOf(q.evt) = {}

----------------------------------------------------------------------------
\* The referral claims.

\* The ledger entries with a reason.
EntriesFor(reason) == {n \in 1..Len(ledger) : ledger[n].reason = reason}

\* C18 (as claimed): whatever distributeRewards invocations run, the referral's
\* inviter gets at most one referral_reward_inviter entry and its invitee at
\* most one referral_reward_invitee entry.
C18_NoDoublePay ==
  /\ Cardinality(EntriesFor("referral_reward_inviter")) <= 1
  /\ Cardinality(EntriesFor("referral_reward_invitee")) <= 1

\* The steps the referral's status may take.
ForwardSteps ==
  {<<"pending", "verified">>, <<"verified", "rewarded">>, <<"pending", "rejected">>,
   <<"verified", "rejected">>}

\* C19 (as claimed): the referral's status changes only along pending ->
\* verified, verified -> rewarded, pending -> rejected, verified -> rejected;
\* from rewarded and from rejected it changes no more.
C19_StatusForward ==
  [][referral'.status # referral.status
       => <<referral.status, referral'.status>> \in ForwardSteps]_vars

\* C20 (as claimed): the referral goes from pending to verified only in a state
\* in which the invitee has logged in, has a processed event that carries a
\* transaction hash, and has a totalXP of at least the referral's threshold.
C20_VerifiedOnlyWhenCriteriaHold ==
  [][(referral.status = "pending" /\ referral'.status = "verified") =>
       /\ firstLoginAt[referral.inviteeUserId]
       /\ \E i \in EventIds : /\ events[i].userId = referral.inviteeUserId
                              /\ events[i].txHash # "none"
                              /\ events[i].status = "processed"
       /\ totalXP[referral.inviteeUserId] >= referral.minXPThreshold]_vars

\* C21: at most one referral row exists per invitee, and a createReferral call
\* for an invitee who had a referral when it was made, whatever the status of
\* that referral, fails with 'User has already been referred' and creates
\* nothing.
C21_ReferralSingleUse ==
  /\ \A u \in Users : Cardinality(ReferralsOf(u)) <= 1
  /\ \A p \in Procs :
       (procs[p].op = "createReferral" /\ procs[p].pc # "cr_create" /\ procs[p].pre > 0)
         => /\ procs[p].pc = "threw"
            /\ procs[p].res.message = Msg(AlreadyReferred, 0)
            /\ procs[p].wrote = 0

\* Two calls for an invitee without a referral raced: one created the row, the
\* other failed at the index; and a call for an invitee whose referral is
\* rejected has failed.
C21_Witness ==
  /\ Len(referrals) = 2
  /\ referrals[1].status = "rejected"
  /\ procs[1].op = "createReferral" /\ procs[1].pc = "done" /\ procs[1].user = "u1"
  /\ procs[2].op = "createReferral" /\ procs[2].pc = "threw" /\ procs[2].user = "u1"
  /\ procs[2].pre = 0

\* C22: when updateQuestProgress fails after the ledger append, processEvent
\* still answers success with xpAwarded = rule.xpAmount, and the ledger entry,
\* the balance written and the event's processed status stay as committed.
C22_QuestFailureKeepsAward ==
  \A p \in Procs :
    procs[p].fault = "quest" =>
      /\ procs[p].pc = "done"
      /\ procs[p].res.success
      /\ procs[p].res.xpAwarded = procs[p].rule.xpAmount
      /\ events[procs[p].evt].status = "processed"
      /\ \E n \in 1..Len(ledger) : /\ ledger[n].eventId = procs[p].evt
                                     /\ ledger[n].deltaXP = procs[p].rule.xpAmount
      /\ procs[p].xpw = 1

\* The fan-out of a deposit, which has a matching quest, has failed.
C22_Witness ==
  \E p \in Procs : /\ procs[p].fault = "quest"
                    /\ procs[p].type = "deposit"
                    /\ procs[p].pc = "done"
                    /\ procs[p].qadv = 0

\* C24 (as claimed): a ledger append that fails at the user lookup, at the
\* entry creation or at the balance update leaves neither a ledger entry nor
\* a totalXP change of its own.
C24_NoPartialState ==
  \A p \in Procs :
    procs[p].fault \in {"read", "create", "write"} =>
      procs[p].wrote = 0 /\ procs[p].xpw = 0

\* The verifier's call raises an error: no provider for the chain, or the RPC
\* call times out or fails.
VerifierRaises(m) == m.chainId # BaseSepolia \/ m.txHash \in RpcErrors

\* C23: when the verifier's call times out or raises an error, the request
\* ends with success=false, its event is marked failed with the error as the
\* reason, and no ledger entry is appended.
C23_VerifierFailureFails ==
  \A p \in Procs :
    LET q == procs[p] IN
    (q.op = "processEvent" /\ q.ver # "none" /\ VerifierRaises(q.meta)) =>
      /\ q.ver = "no"
      /\ FailedAt(q, "verify") /\ ~Answer(q).success /\ Answer(q).xpAwarded = 0
      /\ Answer(q).detail \in {"timeout", "No provider configured for chain ID"}
      /\ q.pc = "done" => /\ events[q.evt].status = "failed"
                          /\ events[q.evt].reason.text = q.res.detail
      /\ q.wrote = 0 /\ EntriesOf(q.evt) = {}

\* A submission whose receipt timed out has failed, and so has one on a chain
\* without a provider.
C23_Witness ==
  /\ \E i \in EventIds : events[i].status = "failed" /\ events[i].reason.text = "timeout"
  /\ \E i \in EventIds : /\ events[i].status = "failed"
                          /\ events[i].reason.text = "No provider configured for chain ID"

\* The request has answered after its event passed every check of a rule: it
\* was not rejected, and it got as far as the award.
PassedAllChecks(q) ==
  /\ q.op = "processEvent" /\ q.pc \in {"done", "threw"}
  /\ q.evt # 0 /\ q.hadRule = "yes" /\ q.res.kind # "fail"

\* C25 (as claimed): a submission for an action type with an active rule, and
\* which passes all checks, appends exactly one ledger entry, with deltaXP
\* rule.xpAmount, the action type as reason and the event as eventId, and its
\* event is marked processed; for every action type a rule can be created for.
C25_EveryRuleAwards ==
  \A p \in Procs :
    LET q == procs[p] IN
    PassedAllChecks(q) =>
      /\ Cardinality(EntriesOf(q.evt)) = 1
      /\ \A n \in EntriesOf(q.evt) : /\ ledger[n].deltaXP = q.rule.xpAmount
                                      /\ ledger[n].reason = q.type
                                      /\ ledger[n].userId = q.user
      /\ events[q.evt].status = "processed"

RECURSIVE SumEntries(_)
\* The total deltaXP of a set of ledger entries.
SumEntries(E) ==
  IF E = {} THEN 0
  ELSE LET n == CHOOSE x \in E : TRUE IN ledger[n].deltaXP + SumEntries(E \ {n})

\* The total deltaXP of the entries a processEvent call appended.
AppendedBy(q) == IF q.evt = 0 THEN 0 ELSE SumEntries(EntriesOf(q.evt))

\* C26: the xpAwarded a processEvent call returns is the total deltaXP of
\* the entries it appended: rule.xpAmount on the award, 0 otherwise; a
\* rejection returns success=false, xpAwarded 0 and the failing check's
\* reason as message, which is the reason saved on the event; a cooldown
\* rejection returns the next-eligible time, and no other rejection has one.
C26_ResultContract ==
  \A p \in Procs :
    LET q == procs[p] IN
    (q.op = "processEvent" /\ q.pc = "done") =>
      /\ q.res.xpAwarded = AppendedBy(q)
      /\ q.res.xpAwarded = IF q.res.success /\ q.hadRule = "yes" THEN q.rule.xpAmount ELSE 0
      /\ q.res.kind = "fail" =>
           /\ ~q.res.success /\ q.res.xpAwarded = 0
           /\ \E c \in {"validate", "cooldown", "limit", "verify"} :
                /\ RejectedBy(q, c)
                /\ events[q.evt].reason.text \in ReasonsOf(c)
                /\ IF c = "verify"
                     THEN /\ q.res.message.text = "Onchain verification failed"
                          /\ q.res.detail = events[q.evt].reason.text
                     ELSE q.res.message = events[q.evt].reason
           /\ IF RejectedBy(q, "cooldown")
                THEN q.res.nextAvailableAt = q.cdLast + q.rule.cooldownMinutes
                ELSE q.res.nextAvailableAt = -1

\* An award has answered with the rule's amount and a later submission of the
\* same type was rejected for the cooldown, with its next-eligible time.
C26_Witness ==
  /\ \E p \in Procs : /\ procs[p].pc = "done" /\ procs[p].res.success
                       /\ procs[p].res.xpAwarded = SeedRules["claim_faucet"].xpAmount /\ procs[p].wrote = 1
  /\ \E p \in Procs : /\ RejectedBy(procs[p], "cooldown")
                       /\ procs[p].res.nextAvailableAt = CooldownTicks

\* C27 (as claimed): every change of a user's totalXP is the balance update
\* of a ledger append: the new totalXP is the balanceAfter of an entry of the
\* user that is in the ledger.
C27_OnlyLedgerChangesXP ==
  [][\A u \in Users :
       totalXP'[u] # totalXP[u] =>
         \E n \in 1..Len(ledger) : /\ ledger[n].userId = u
                                    /\ ledger[n].balanceAfter = totalXP'[u]]_vars

\* C28: the ledger is append-only: every step leaves the entries that exist
\* as they are, field by field and in their order, and at most adds entries
\* after them.
C28_AppendOnly == [][IsPrefix(ledger, ledger')]_vars

\* Entries were appended after an entry that existed, for both users.
C28_Witness ==
  /\ Len(ledger) >= 3
  /\ \E n, k \in 1..Len(ledger) : ledger[n].userId # ledger[k].userId

\* The progress rows of the user for the current period of every active quest
\* with an event-count rule on the action type.
MatchingRows(u, actionType, t) ==
  {<<u, qs.id, PeriodStart(qs, t)>> : qs \in {x \in ActiveQuests : x.eventType = actionType}}

\* The active quests with an event-count rule on the action type.
MatchingQuests(actionType) == {x \in ActiveQuests : x.eventType = actionType}

\* The progressValue of a row, 0 for a row that does not exist.
ProgressOf(qp, k) == IF k \in DOMAIN qp THEN qp[k] ELSE 0

C30_OneRulePerActionType ==
  /\ [](/\ \A i, j \in 1..Len(xprules) :
             xprules[i].actionType = xprules[j].actionType => i = j
        /\ \A p \in Procs :
             (procs[p].op = "createXPRule" /\ procs[p].pre > 0) =>
               /\ procs[p].pc = "done" /\ ~procs[p].res.success
               /\ procs[p].res.kind = "badRequest" /\ procs[p].wrote = 0)
  /\ [][/\ Len(xprules') >= Len(xprules)
         /\ \A i \in 1..Len(xprules) : xprules'[i].actionType = xprules[i].actionType]_vars

\* Two createXPRule calls for one new action type, spelled differently, raced:
\* one created the rule, the other failed at the index; and an update whose
\* body names another action type has changed the first rule's amount.
C30_Witness ==
  /\ Len(xprules) = Len(InitialRows) + 1
  /\ xprules[Len(xprules)].actionType = "swap"
  /\ \E p, r \in Procs :
       /\ procs[p].op = "createXPRule" /\ procs[p].res.kind = "created"
       /\ procs[r].op = "createXPRule" /\ procs[r].res.kind = "serverError"
       /\ procs[r].pre = 0 /\ procs[r].wrote = 0 /\ procs[r].type # procs[p].type
  /\ xprules[1].xpAmount = 5 /\ xprules[1].actionType = SeedRows[1].actionType

\* C31: under a rule whose dailyLimit is 0 or null the limit check lets every
\* submission through, however many events of the action type the user has
\* that day.
C31_ZeroIsNoLimit ==
  \A p \in Procs :
    LET q == procs[p] IN
    (q.limAt >= 0 /\ q.rule.dailyLimit = 0) =>
      /\ ~RejectedBy(q, "limit")
      /\ q.limBy = {}
      /\ q.pc = "done" => q.res.message.text # "Daily limit reached"

\* A user's third deposit of a day, under the deposit rule, which has no
\* daily limit, has passed the limit check and has been awarded.
C31_Witness ==
  \E p \in Procs :
    /\ procs[p].type = "deposit" /\ procs[p].rule.dailyLimit = 0
    /\ procs[p].limN = 2 /\ procs[p].wrote = 1 /\ procs[p].pc = "done"

\* C32: once a processEvent call that created an event has returned or thrown,
\* the event is processed or failed, also when the ledger append or a status
\* update raised an error; no event is left recorded or verified.
C32_EveryEventTerminal ==
  \A p \in Procs :
    LET q == procs[p] IN
    (q.op = "processEvent" /\ q.evt # 0 /\ q.pc \in {"done", "threw"}) =>
      events[q.evt].status \in {"processed", "failed"}

\* C33: after a distributeRewards call, successful or failed, either both
\* reward entries exist and the referral is rewarded with the credited amounts,
\* or nothing changed: no reward entry exists and the referral is as the call
\* found it; a call that failed changed nothing.
C33_AllOrNothing ==
  \A p \in Procs :
    LET q == procs[p]
        a == Cardinality(EntriesFor("referral_reward_inviter"))
        b == Cardinality(EntriesFor("referral_reward_invitee")) IN
    (q.op = "distributeRewards" /\ q.pc \in {"done", "threw"}) =>
      /\ \/ /\ a = 1 /\ b = 1
            /\ referral.status = "rewarded"
            /\ referral.inviterXP = InviterXP /\ referral.inviteeXP = InviteeXP
         \/ /\ a = 0 /\ b = 0
            /\ referral = q.doc
      /\ q.pc = "threw" => referral = q.doc

\* The result of a distributeRewards call that its guard refused.
MustBeVerified == Threw(<<"Referral must be verified before distributing rewards">>)

\* C34: a distributeRewards call on a referral whose status is pending,
\* rewarded or rejected throws 'Referral must be verified before distributing
\* rewards', and the call changes neither the referral nor the ledger nor any
\* user's totalXP.
C34_GuardedPayout ==
  /\ [](\A p \in Procs :
         (procs[p].op = "distributeRewards" /\ procs[p].doc.status # "verified") =>
           /\ procs[p].pc = "threw" /\ procs[p].res = MustBeVerified
           /\ procs[p].wrote = 0 /\ procs[p].xpw = 0)
  /\ [][\A p \in Procs :
         (procs[p].op # "distributeRewards" /\ procs'[p].op = "distributeRewards"
            /\ referral.status # "verified") =>
           /\ procs'[p].pc = "threw" /\ procs'[p].res = MustBeVerified
           /\ referral' = referral /\ ledger' = ledger /\ totalXP' = totalXP]_vars

\* A distributeRewards call on the referral after it was rewarded has thrown
\* the guard's error.
C34_Witness ==
  \E p \in Procs :
    /\ procs[p].op = "distributeRewards" /\ procs[p].doc.status = "rewarded"
    /\ procs[p].pc = "threw" /\ procs[p].res = MustBeVerified
    /\ Cardinality(EntriesFor("referral_reward_inviter")) = 1

\* The events for which XP was awarded: a ledger entry carries their id.
Awarded == {i \in EventIds : EntriesOf(i) # {}}

\* The awarded events of the user and action type.
AwardedOf(u, actionType) ==
  {i \in Awarded : events[i].userId = u /\ events[i].type = actionType}

\* C35: under a rule with dailyLimit L >= 1, whatever the interleaving of a
\* user's concurrent submissions of the action type with distinct keys, at most
\* L of the submissions of one day are awarded XP.
C35_DailyLimitUnderConcurrency ==
  \A u \in Users, t \in DOMAIN rules :
    rules[t].dailyLimit >= 1 =>
      \A i \in AwardedOf(u, t) :
        Cardinality({j \in AwardedOf(u, t) :
                       StartOfDay(events[j].occurredAt) = StartOfDay(events[i].occurredAt)})
          <= rules[t].dailyLimit

\* C36: under a rule with cooldown C > 0, whatever the interleaving of a
\* user's concurrent submissions of the action type with distinct keys, no two
\* submissions whose events are less than C apart are both awarded XP.
C36_CooldownUnderConcurrency ==
  \A u \in Users, t \in DOMAIN rules :
    rules[t].cooldownMinutes > 0 =>
      \A i, j \in AwardedOf(u, t) :
        (i # j /\ events[i].occurredAt <= events[j].occurredAt) =>
          events[j].occurredAt - events[i].occurredAt >= rules[t].cooldownMinutes

\* C37: a submission decides on one view of the rule: when an administrator
\* deactivates the rule while the submission is in flight it ends either as
\* 'no rule', its event processed and 0 XP awarded, or checked against and
\* awarded the xpAmount of the rule it looked up; it never ends failed with
\* 'No active rule found for this action'.
C37_RuleSnapshot ==
  \A p \in Procs :
    LET q == procs[p] IN
    (q.op = "processEvent" /\ q.pc = "done") =>
      /\ q.res.message.text # "No active rule found for this action"
      /\ events[q.evt].reason.text # "No active rule found for this action"
      /\ q.rule = NoRule =>
           (events[q.evt].status = "processed" /\ q.res.xpAwarded = 0 /\ q.wrote = 0)
      /\ \A n \in EntriesOf(q.evt) : ledger[n].deltaXP = q.rule.xpAmount

\* The authentications that presented the nonce.
TokensFor(nonce) == {i \in DOMAIN auth.tokens : auth.tokens[i].nonce = nonce}

\* C38: verifySignature authenticates only on the stored, unexpired nonce and
\* clears it: of the verifySignature calls presenting one nonce, in any
\* sequence or interleaving, at most one succeeds, and an authentication
\* presents the nonce stored when it is made, so that a nonce replaced by a
\* new requestNonce authenticates no more.
C38_NonceSingleUse ==
  /\ \A n \in 1..MaxNonces : Cardinality(TokensFor(n)) <= 1
  /\ \A i \in DOMAIN auth.tokens : auth.tokens[i].stored = auth.tokens[i].nonce

\* C39: the generate-and-check loop of a new user's save stops after a bounded
\* number of candidate codes, whatever codes are in use: a save that has
\* entered the loop leaves it.
C39_CodeLoopStops ==
  \A p \in Pair : (auth.saves[p].pc = "generate") ~> (auth.saves[p].pc # "generate")

====
